---------------------------- MODULE Spec2Model ----------------------------
(***************************************************************************)
(* CrypTick (src/app.py): the runtime engine of the price ticker.          *)
(*                                                                         *)
(*   - the configuration model (self.state), read by everything below;     *)
(*   - the Controller: start_all / pause_all / stop_all /                  *)
(*     apply_profile_settings_live and the refresh_loop coroutine, one     *)
(*     asyncio task per start, stepped from suspension point to            *)
(*     suspension point;                                                   *)
(*   - the MonitorTicker renderer: set_initial_items / update_items /      *)
(*     _relayout / _scroll_step;                                           *)
(*   - the text functions of the engine (normalize_address, key_for,       *)
(*     short_addr, price_str), load_state, Dashboard.add_token and         *)
(*     Controller.cycle_active_profile.                                    *)
(*                                                                         *)
(* Conventions.  Python None is the integer None (-1).  Text that the code *)
(* takes apart or joins (network ids, addresses, token keys) is a sequence *)
(* of one-character strings.  A Python dict whose order the code relies on *)
(* is a sequence of keys plus a function.  Opacities are in percent.       *)
(* A price is a whole number of 10^-5 dollars.  The em dash and the        *)
(* ellipsis are written "-" and "...".                                     *)
(* A coroutine step runs from one await to the next and is atomic, as on   *)
(* a single-threaded event loop; the nested QApplication.processEvents()   *)
(* calls of the renderer are not modelled as re-entry points.              *)
(***************************************************************************)
EXTENDS Integers, Sequences, FiniteSets, TLC

VARIABLES
    state,            \* Controller.state: the configuration model
    last_results,     \* Controller.last_results: group -> token key -> sample
    logo_cache,       \* Controller.logo_cache (memory tier; keys resolved)
    session,          \* Controller.session
    monitor_tickers,  \* Controller.monitor_tickers, in dict order
    refresh_task,     \* Controller.refresh_task: a task id or None
    tasks,            \* the refresh_loop tasks the event loop still holds
    status,           \* Dashboard.status text
    lifecycle,        \* history: the last of start / pause / stop invoked
                      \* ("off" before the Controller exists, "init" after)
    assignment,       \* history: the last mon_to_profiles computed, and where
    disk,             \* the "profiles" member of state.json, as the file holds it
    clock               \* time.time(), in whole seconds since the start

vars == << state, last_results, logo_cache, session, monitor_tickers,
           refresh_task, tasks, status, lifecycle, assignment, disk, clock >>

---------------------------------------------------------------------------
(* Bounds of the model *)

\* screens attached: monitor indices are 0 .. NumScreens-1
NumScreens == 2
\* refresh_loop tasks the event loop holds at once (live + cancelled-not-yet-run)
MaxTasks == 2
\* distinct price values the feed may report: 1 .. MaxPrice
MaxPrice == 1
\* tokens a group holds at most: add_token is explored up to that length
MaxTokens == 2
\* scroll offset up to which render ticks are explored
MaxOffset == 1
\* the widths, in pixels, of a short and of a long item text
NarrowTextW == 10
WideTextW == 400
\* the available widths of the two screens
NarrowScreenW == 300
WideScreenW == 1000

(* Program constants *)

None == -1
\* _update_marquee_state: len(self.order) > 10
MarqueeItemLimit == 10
\* _update_marquee_state: container.width() - 20
MarqueeMargin == 20
\* refresh_loop: R = max(R, 10)
MinRefresh == 10
\* ps.get("refresh_sec", 30)
DefaultRefresh == 30
\* hbox.setContentsMargins(10,6,10,6): left + right
HBoxMargins == 20
\* hbox.setSpacing(28)
HBoxSpacing == 28
\* TokenItemWidget: icon 22 wide + layout spacing 8
IconExtent == 30
\* set_opacity_from_profiles: 0.7 when no profile is given; __init__ bg_opacity
DefaultBgOpacity == 70
\* short_addr: addresses longer than 10 characters are shortened
ShortAddrLimit == 10
\* short_addr: addr[:6]
ShortAddrHead == 6
\* short_addr: addr[-4:]
ShortAddrTail == 4
\* the width Qt gives a child widget (self.container) before its first layout
UnlaidContainerW == 100

Displays == 0 .. (NumScreens - 1)
Prices == 1 .. MaxPrice

---------------------------------------------------------------------------
(* Generic helpers *)

Range(s) == { s[i] : i \in DOMAIN s }

MaxOf(S) == CHOOSE m \in S : \A x \in S : x <= m

MinOf(S) == CHOOSE m \in S : \A x \in S : m <= x

RECURSIVE SumSeq(_)
SumSeq(s) == IF s = << >> THEN 0 ELSE Head(s) + SumSeq(Tail(s))

\* the elements of s at the indices keep marks, in the order of s
SelectIdx(s, keep) ==
    LET F[i \in 0 .. Len(s)] ==
            IF i = 0 THEN << >>
            ELSE IF keep[i] THEN Append(F[i-1], s[i]) ELSE F[i-1]
    IN F[Len(s)]

\* s without its first occurrence of x (list.remove)
RemoveFirst(s, x) ==
    IF \E i \in DOMAIN s : s[i] = x
    THEN LET k == MinOf({ i \in DOMAIN s : s[i] = x })
         IN SubSeq(s, 1, k - 1) \o SubSeq(s, k + 1, Len(s))
    ELSE s

\* a Python dict as a function: d.get(k, dflt)
DictGet(d, k, dflt) == IF k \in DOMAIN d THEN d[k] ELSE dflt

\* d.update(e)
DictUpdate(d, e) ==
    [ k \in (DOMAIN d) \cup (DOMAIN e) |-> IF k \in DOMAIN e THEN e[k] ELSE d[k] ]

EmptyDict == [ k \in {} |-> None ]

---------------------------------------------------------------------------
(* Address normalisation and keys: app.py 83-107 *)

LowerChar(c) ==
    CASE c = "A" -> "a"
      [] c = "B" -> "b"
      [] c = "C" -> "c"
      [] c = "X" -> "x"
      [] OTHER   -> c

StartsWith0x(addr) == Len(addr) >= 2 /\ addr[1] = "0" /\ addr[2] = "x"

\* a faulty normaliser: every address is lower-cased, prefixed or not
lower_always(net_id, addr) == [ i \in DOMAIN addr |-> LowerChar(addr[i]) ]

normalize_address(net_id, addr) ==
    IF addr = << >> THEN addr
    ELSE IF StartsWith0x(addr) THEN [ i \in DOMAIN addr |-> LowerChar(addr[i]) ]
    ELSE addr

key_for(net_id, addr) == net_id \o << ":" >> \o normalize_address(net_id, addr)

short_addr(addr) ==
    IF Len(addr) <= ShortAddrLimit THEN addr
    ELSE SubSeq(addr, 1, ShortAddrHead) \o << "..." >>
         \o SubSeq(addr, Len(addr) - ShortAddrTail + 1, Len(addr))

\* str.lstrip(chars), str.rstrip(chars), str.strip(): chars is a set of
\* characters; strip() removes white space, of which the model has " "
RECURSIVE lstrip(_, _)
lstrip(s, chars) ==
    IF s # << >> /\ Head(s) \in chars THEN lstrip(Tail(s), chars) ELSE s

RECURSIVE rstrip(_, _)
rstrip(s, chars) ==
    IF s # << >> /\ s[Len(s)] \in chars
    THEN rstrip(SubSeq(s, 1, Len(s) - 1), chars)
    ELSE s

strip(s) == rstrip(lstrip(s, { " " }), { " " })

\* A price is a number of 10^-PriceDigits dollars: float(price) at 1252 read
\* to that many decimals
PriceDigits == 5

RECURSIVE Pow10(_)
Pow10(k) == IF k = 0 THEN 1 ELSE 10 * Pow10(k - 1)

PriceScale == Pow10(PriceDigits)

DigitChar(d) == << "0", "1", "2", "3", "4", "5", "6", "7", "8", "9" >>[d + 1]

\* the decimal digits of a natural number
RECURSIVE Digits(_)
Digits(n) ==
    IF n < 10 THEN << DigitChar(n) >>
    ELSE Digits(n \div 10) \o << DigitChar(n % 10) >>

\* n in d digits, zeros in front
Padded(n, d) == [ i \in 1 .. (d - Len(Digits(n))) |-> "0" ] \o Digits(n)

\* the "," option of the format specification: a comma before every group of
\* three digits but the first
RECURSIVE Grouped(_)
Grouped(s) ==
    IF Len(s) <= 3 THEN s
    ELSE Grouped(SubSeq(s, 1, Len(s) - 3)) \o << "," >> \o SubSeq(s, Len(s) - 2, Len(s))

\* n / m rounded to the nearest integer, a tie to the even one
RoundHalfEven(n, m) ==
    LET q == n \div m
        r == n % m
    IN IF 2 * r > m \/ (2 * r = m /\ q % 2 = 1) THEN q + 1 ELSE q

\* format(p, ",.<d>f") when grouping, format(p, ".<d>f") when not
format_fixed(p, d, grouping) ==
    LET q     == IF d <= PriceDigits THEN RoundHalfEven(p, Pow10(PriceDigits - d))
                 ELSE p * Pow10(d - PriceDigits)
        whole == Digits(q \div Pow10(d))
    IN (IF grouping THEN Grouped(whole) ELSE whole)
       \o << "." >> \o Padded(q % Pow10(d), d)

\* the em dash price_str returns for None
Placeholder == << "-" >>

\* a faulty price_str: 100 itself still shown with three decimals
price_str_strict(p) ==
    IF p = None THEN Placeholder
    ELSE IF p > 100 * PriceScale THEN << "$" >> \o format_fixed(p, 2, TRUE)
    ELSE IF p >= PriceScale THEN << "$" >> \o format_fixed(p, 3, TRUE)
    ELSE IF 10 * p >= PriceScale THEN << "$" >> \o format_fixed(p, 4, FALSE)
    ELSE << "$" >> \o rstrip(rstrip(format_fixed(p, 8, FALSE), { "0" }), { "." })

\* 73-78
price_str(p) ==
    IF p = None THEN Placeholder
    ELSE IF p >= 100 * PriceScale THEN << "$" >> \o format_fixed(p, 2, TRUE)
    ELSE IF p >= PriceScale THEN << "$" >> \o format_fixed(p, 3, TRUE)
    ELSE IF 10 * p >= PriceScale THEN << "$" >> \o format_fixed(p, 4, FALSE)
    ELSE << "$" >> \o rstrip(rstrip(format_fixed(p, 8, FALSE), { "0" }), { "." })

AbsentSample == [ price |-> None, h24 |-> None, m5 |-> None ]

---------------------------------------------------------------------------
(* The configuration model: app.py 110-148, 1102-1110 *)

\* a token entry of a profile
Token(net, addr) == [ network_id |-> net, address |-> addr, custom_name |-> << >> ]

\* _ensure_profile_settings: the fields the engine reads, with their defaults
DefaultSettings ==
    [ monitor_index |-> None, opacity |-> 50, click_through |-> TRUE,
      show_logo |-> TRUE, refresh_sec |-> DefaultRefresh,
      use_custom_names |-> FALSE ]

\* Controller.ps_for: the settings are fully populated when the state is
\* loaded and when a profile is created, so setdefault changes nothing
ps_for(st, profile) == st.profile_settings[profile]

\* Controller.tokens_for: the profile's token list, addresses normalised
tokens_for(st, profile) ==
    IF profile \in DOMAIN st.profiles
    THEN [ i \in DOMAIN st.profiles[profile] |->
             [ st.profiles[profile][i] EXCEPT
                 !.address = normalize_address(st.profiles[profile][i].network_id,
                                               st.profiles[profile][i].address) ] ]
    ELSE << >>

\* load_state (167-172): every token's address is normalised and the result
\* is written back to the file; file: the "profiles" member as stored
load_state(file) ==
    [ p \in DOMAIN file |->
        [ i \in DOMAIN file[p] |->
            [ file[p][i] EXCEPT
                !.address = normalize_address(file[p][i].network_id,
                                              file[p][i].address) ] ] ]

\* a faulty resolver test: a display target alone, the token list not looked at
HasTarget(st, pname) == ps_for(st, pname).monitor_index # None

\* the test both resolvers apply to one profile
IsAssigned(st, pname) ==
    ps_for(st, pname).monitor_index # None /\ tokens_for(st, pname) # << >>

\* mon_to_profiles as start_all (1117-1121) and refresh_loop (1201-1205) build
\* it: a defaultdict(list) filled in the order of state["profiles"];
\* keys: the displays in insertion order, m: display -> profile names
mon_to_profiles(st) ==
    LET act  == SelectIdx(st.names,
                          [ i \in DOMAIN st.names |-> IsAssigned(st, st.names[i]) ])
        mons == [ i \in DOMAIN act |-> ps_for(st, act[i]).monitor_index ]
        keys == SelectIdx(mons, [ i \in DOMAIN mons |->
                                    \A j \in 1 .. (i - 1) : mons[j] # mons[i] ])
    IN [ keys |-> keys,
         m    |-> [ d \in Range(mons) |->
                      SelectIdx(act, [ i \in DOMAIN act |-> mons[i] = d ]) ] ]

\* a faulty interval: the maximum without the floor of line 1215
UnflooredInterval(st, m2p) ==
    MaxOf({ ps_for(st, p).refresh_sec :
              p \in UNION { Range(m2p.m[d]) : d \in DOMAIN m2p.m } } \cup {0})

\* a faulty interval: the global default, whatever the groups ask for
DefaultInterval(st, m2p) == MaxOf({ DefaultRefresh, MinRefresh })

\* refresh_loop 1211-1215: R = 0; R = max(R, refresh_sec) over every profile
\* of every display of mon_to_profiles; R = max(R, 10)
RoundInterval(st, m2p) ==
    LET rs == { ps_for(st, p).refresh_sec :
                  p \in UNION { Range(m2p.m[d]) : d \in DOMAIN m2p.m } }
    IN MaxOf({ MaxOf(rs \cup {0}), MinRefresh })

---------------------------------------------------------------------------
(* The Display Composer: Controller._build_monitor_items, app.py 1155-1187 *)

\* the identity of an item: f'{pname}|{base_key}'
merged_key(pname, base_key) == << pname, "|", base_key >>

\* a faulty choice of name: the feed's name goes before the custom name
feed_name_first(st, ps, t, base_key) ==
    IF DictGet(st.token_names, base_key, << >>) # << >>
    THEN st.token_names[base_key]
    ELSE IF ps.use_custom_names /\ strip(t.custom_name) # << >>
         THEN strip(t.custom_name)
         ELSE short_addr(t.address)

\* 1166-1168: the name shown for a token
item_name(st, ps, t, base_key) ==
    LET name == IF DictGet(st.token_names, base_key, << >>) # << >>
                THEN st.token_names[base_key]
                ELSE short_addr(t.address)
    IN IF ps.use_custom_names /\ strip(t.custom_name) # << >>
       THEN strip(t.custom_name)
       ELSE name

\* a faulty change text: an unknown change shown as no change
change_str_zero(x) == << "+", "0", "%" >>

\* 87-88: the em dash for None, else format(x, "+.0f") and a percent sign;
\* changes are whole percents
change_str(x) ==
    IF x = None THEN Placeholder
    ELSE << IF x >= 0 THEN "+" ELSE "-" >>
         \o Digits(IF x >= 0 THEN x ELSE 0 - x) \o << "%" >>

\* 86-89; the fixed words are kept whole
format_changes(m5, h24) ==
    change_str(m5) \o << " last 5m / " >> \o change_str(h24) \o << " last 24h" >>

\* a faulty item: resolved and styled as the first group's
build_item_first_group(st, lr, lc, pname, t, use_cache) ==
    LET ps       == ps_for(st, st.names[1])
        base_key == key_for(t.network_id, t.address)
        vals     == IF use_cache THEN DictGet(lr[st.names[1]], base_key, AbsentSample)
                    ELSE AbsentSample
    IN [ key       |-> merged_key(pname, base_key),
         text      |-> << item_name(st, ps, t, base_key),
                          price_str(vals.price),
                          format_changes(vals.m5, vals.h24) >>,
         show_logo |-> ps.show_logo,
         pixmap    |-> base_key \in lc ]

\* a faulty item: composed without looking into the result cache
build_item_uncached(st, lr, lc, pname, t, use_cache) ==
    LET ps       == ps_for(st, pname)
        base_key == key_for(t.network_id, t.address)
    IN [ key       |-> merged_key(pname, base_key),
         text      |-> << item_name(st, ps, t, base_key),
                          price_str(None), format_changes(None, None) >>,
         show_logo |-> ps.show_logo,
         pixmap    |-> base_key \in lc ]

\* one item of the composed list; text holds the fields make_item_html
\* renders: the name, the price text and the changes text
\* (the logo disk tier holds what this run saved, which logo_cache holds too)
build_item(st, lr, lc, pname, t, use_cache) ==
    LET ps       == ps_for(st, pname)
        base_key == key_for(t.network_id, t.address)
        vals     == IF use_cache THEN DictGet(lr[pname], base_key, AbsentSample)
                    ELSE AbsentSample
    IN [ key       |-> merged_key(pname, base_key),
         text      |-> << item_name(st, ps, t, base_key),
                          price_str(vals.price),
                          format_changes(vals.m5, vals.h24) >>,
         show_logo |-> ps.show_logo,
         pixmap    |-> base_key \in lc ]

RECURSIVE ConcatAll(_)
ConcatAll(ss) == IF ss = << >> THEN << >> ELSE Head(ss) \o ConcatAll(Tail(ss))

\* a faulty composer: the groups taken last-declared first
_build_items_reversed(st, lr, lc, mon_idx, use_cache) ==
    LET on == SelectIdx(st.names,
                        [ i \in DOMAIN st.names |->
                            ps_for(st, st.names[i]).monitor_index = mon_idx ])
    IN ConcatAll([ i \in DOMAIN on |->
                     LET p == on[Len(on) + 1 - i]
                     IN [ j \in DOMAIN tokens_for(st, p) |->
                            build_item(st, lr, lc, p, tokens_for(st, p)[j],
                                       use_cache) ] ])

\* every profile whose monitor_index is mon_idx, in the order of
\* state["profiles"], and within it every token in the profile's order
_build_monitor_items(st, lr, lc, mon_idx, use_cache) ==
    LET on == SelectIdx(st.names,
                        [ i \in DOMAIN st.names |->
                            ps_for(st, st.names[i]).monitor_index = mon_idx ])
    IN ConcatAll([ i \in DOMAIN on |->
                     [ j \in DOMAIN tokens_for(st, on[i]) |->
                         build_item(st, lr, lc, on[i],
                                    tokens_for(st, on[i])[j], use_cache) ] ])

---------------------------------------------------------------------------
(* The renderer: TokenItemWidget and MonitorTicker, app.py 830-1016 *)

\* the width Qt's font metrics give a label for its text; only the texts
\* "wide" and "narrow" of the renderer's own specification differ in width
TextWidth(text) == IF text = << "wide" >> THEN WideTextW ELSE NarrowTextW

\* the available width of a screen (_apply_full_width: geo.width())
ScreenWidth(idx) == IF idx = 0 THEN WideScreenW ELSE NarrowScreenW

\* a TokenItemWidget: the label's text, the icon's visibility and pixmap
Widget(it) == [ text |-> it.text, show_logo |-> it.show_logo, pixmap |-> it.pixmap ]

WidgetWidth(w) == TextWidth(w.text) + (IF w.show_logo THEN IconExtent ELSE 0)

\* a widget object not among the objects in `used`
NewWid(used) == MinOf({ i \in 1 .. (Cardinality(used) + 1) : i \notin used })

\* MonitorTicker.__init__ (864-896)
NewTicker(mon_idx) ==
    [ monitor_index |-> mon_idx,
      width         |-> ScreenWidth(mon_idx),
      container_w   |-> UnlaidContainerW,
      order         |-> << >>,
      items         |-> EmptyDict,
      widgets       |-> EmptyDict,
      hbox          |-> << >>,
      _offset       |-> 0,
      _marquee      |-> FALSE,
      track_w       |-> 0,
      track_x       |-> 0,
      align         |-> "center",
      bg_opacity    |-> DefaultBgOpacity,
      click_through |-> FALSE ]

\* self.hbox.sizeHint().width(): margins, the widgets, the spacing between them
sizeHintWidth(tk) ==
    HBoxMargins
    + SumSeq([ i \in DOMAIN tk.hbox |-> WidgetWidth(tk.widgets[tk.hbox[i]]) ])
    + (IF Len(tk.hbox) > 1 THEN HBoxSpacing * (Len(tk.hbox) - 1) ELSE 0)

\* 932-939
_layout_track(tk) ==
    LET tw == MaxOf({ sizeHintWidth(tk), 1 })
    IN [ tk EXCEPT !.track_w = tw,
                   !.track_x = IF ~ tk._marquee
                               THEN (tk.container_w - tw) \div 2
                               ELSE 0 - (tk._offset % tw) ]

\* a faulty threshold: the limit itself already counts as too many
at_limit(tk) == Len(tk.order) >= MarqueeItemLimit

\* 942: too_many = len(self.order) > 10
too_many(tk) == Len(tk.order) > MarqueeItemLimit

\* 943: wider = sizeHint().width() > container.width() - 20
wider(tk) == sizeHintWidth(tk) > tk.container_w - MarqueeMargin

\* a faulty mode switch: the offset is kept when scrolling ends
marquee_state_keeping(tk) ==
    LET req == too_many(tk) \/ wider(tk)
    IN [ tk EXCEPT !._marquee = req,
                   !.align    = IF req THEN "left" ELSE "center" ]

\* a faulty mode switch: the offset is reset whatever the mode was and is
marquee_state_rewinding(tk) ==
    LET req == too_many(tk) \/ wider(tk)
    IN [ tk EXCEPT !._offset  = 0,
                   !._marquee = req,
                   !.align    = IF req THEN "left" ELSE "center" ]

\* 941-948
_update_marquee_state(tk) ==
    LET req == too_many(tk) \/ wider(tk)
    IN [ tk EXCEPT !._offset  = IF ~ req /\ tk._marquee THEN 0 ELSE @,
                   !._marquee = req,
                   !.align    = IF req THEN "left" ELSE "center" ]

\* 927-930
_relayout(tk) ==
    _update_marquee_state(_layout_track([ tk EXCEPT !.container_w = tk.width ]))

\* 924-925, reached when the window's size becomes w
resizeEvent(tk, w) == _relayout([ tk EXCEPT !.width = w ])

\* 913-914: _apply_full_width (whose setGeometry delivers a resizeEvent when
\* the size changes), then _relayout
_on_screen_change(tk, w) ==
    _relayout(IF w # tk.width THEN resizeEvent(tk, w) ELSE tk)

\* 950-953
_scroll_step(tk) ==
    IF ~ tk._marquee THEN tk
    ELSE _layout_track([ tk EXCEPT !._offset = @ + 1 ])

\* 955-957
set_opacity_from_profiles(tk, opacities) ==
    [ tk EXCEPT !.bg_opacity = IF opacities # {} THEN MaxOf(opacities)
                               ELSE DefaultBgOpacity ]

\* 916-922
set_click_through(tk, enable) == [ tk EXCEPT !.click_through = enable ]

\* a new TokenItemWidget for `it`, entered in items, order and hbox
\* (967-971 and 981-984); `used` are the widget objects alive before the call
AddItemWidget(tk, it, used) ==
    LET wid == NewWid(used \cup DOMAIN tk.widgets)
    IN [ tk EXCEPT !.widgets = (wid :> Widget(it)) @@ @,
                   !.items   = (it.key :> wid) @@ @,
                   !.order   = Append(@, it.key),
                   !.hbox    = Append(@, wid) ]

\* 959-974
set_initial_items(tk, items) ==
    LET F[i \in 0 .. Len(items)] ==
            IF i = 0
            THEN [ tk EXCEPT !.widgets = EmptyDict, !.items = EmptyDict,
                             !.order = << >>, !.hbox = << >> ]
            ELSE AddItemWidget(F[i-1], items[i], DOMAIN tk.widgets)
    IN _update_marquee_state(_layout_track(F[Len(items)]))

\* 978-984: a widget for every incoming key the renderer does not hold
AppendNewItems(tk, items) ==
    LET F[i \in 0 .. Len(items)] ==
            IF i = 0 THEN tk
            ELSE LET p == F[i-1]
                 IN IF items[i].key \notin DOMAIN p.items
                    THEN AddItemWidget(p, items[i], DOMAIN tk.widgets)
                    ELSE p
    IN F[Len(items)]

\* 987-990 for one key: pop it from items, remove it from order, delete its widget
DropItem(tk, key) ==
    LET has == key \in DOMAIN tk.items
        wid == IF has THEN tk.items[key] ELSE 0
    IN [ tk EXCEPT
           !.items   = [ k \in (DOMAIN @) \ {key} |-> @[k] ],
           !.order   = RemoveFirst(@, key),
           !.widgets = [ w \in (DOMAIN @) \ {wid} |-> @[w] ],
           !.hbox    = SelectIdx(@, [ i \in DOMAIN tk.hbox |-> tk.hbox[i] # wid ]) ]

\* 985-990: every key of the old order that is not incoming
RemoveStaleItems(tk, incoming_keys) ==
    LET old == tk.order
        F[i \in 0 .. Len(old)] ==
            IF i = 0 THEN tk
            ELSE LET p == F[i-1]
                 IN IF old[i] \notin Range(incoming_keys) THEN DropItem(p, old[i])
                    ELSE p
    IN F[Len(old)]

\* 991-1004: the order becomes the incoming order; the layout is emptied and
\* refilled in that order, each widget restyled and retexted from as_dict,
\* which holds for each key the last incoming item with that key
RefillLayout(tk, items) ==
    LET incoming_keys == [ i \in DOMAIN items |-> items[i].key ]
        as_dict(key)  == items[MaxOf({ i \in DOMAIN items : items[i].key = key })]
        held          == SelectIdx(incoming_keys,
                                   [ i \in DOMAIN incoming_keys |->
                                       incoming_keys[i] \in DOMAIN tk.items ])
        kept          == { tk.items[k] : k \in DOMAIN tk.items }
    IN [ tk EXCEPT
           !.order   = incoming_keys,
           !.hbox    = [ i \in DOMAIN held |-> tk.items[held[i]] ],
           !.widgets = [ w \in kept |->
                           LET it == as_dict(CHOOSE k \in DOMAIN tk.items :
                                               tk.items[k] = w)
                           IN [ Widget(it) EXCEPT
                                  !.pixmap = it.pixmap \/ tk.widgets[w].pixmap ] ] ]

\* a faulty update: every widget destroyed and built anew
rebuild_items(tk, items) == set_initial_items(tk, items)

\* 976-1008
update_items(tk, items) ==
    LET incoming_keys == [ i \in DOMAIN items |-> items[i].key ]
        a == AppendNewItems(tk, items)
        b == RemoveStaleItems(a, incoming_keys)
        c == RefillLayout(b, items)
    IN _update_marquee_state(_layout_track(c))

---------------------------------------------------------------------------
(* The controller's world and the refresh_loop coroutine's locals *)

\* the variables as one record, so that a handler is a function on it
Cur ==
    [ state |-> state, last_results |-> last_results, logo_cache |-> logo_cache,
      session |-> session, monitor_tickers |-> monitor_tickers,
      refresh_task |-> refresh_task, tasks |-> tasks, status |-> status,
      lifecycle |-> lifecycle, assignment |-> assignment, disk |-> disk,
      clock |-> clock ]

Becomes(w) ==
    /\ state' = w.state
    /\ last_results' = w.last_results
    /\ logo_cache' = w.logo_cache
    /\ session' = w.session
    /\ monitor_tickers' = w.monitor_tickers
    /\ refresh_task' = w.refresh_task
    /\ tasks' = w.tasks
    /\ status' = w.status
    /\ lifecycle' = w.lifecycle
    /\ assignment' = w.assignment
    /\ disk' = w.disk
    /\ clock' = w.clock

NoPrev == [ pname |-> "", tokens |-> << >>, outcomes |-> EmptyDict ]

\* a refresh_loop task as create_task leaves it: not yet run.
\*   pc        where the coroutine is suspended
\*   cancel    Task.cancel() was called and the event loop has not run the task since
\*   R, m2p    the round's interval and mon_to_profiles
\*   iter_len  the size of state["profiles"] when the round's iteration began
\*   t0        time.time() at the round's start (1216)
\*   slept_at, dur   when the end-of-round sleep began and how long it is (1295)
\*   flying, landed   the keys of to_fetch whose logo request is in flight
\*             (1320-1322) and those whose fetch is over
\*   gi, pname, tokens, by_net, ni, all_results   the fetch phase's position
\*   mons_left, to_fetch                          the compose phase's position
\*   issued    history: the batch requests of this round, as <<group, network>>
\*   outcomes  history: current group, network -> how its batch ended
\*   prev      history: the group whose fetch ended in the last step
NewTask ==
    [ pc |-> "new", cancel |-> FALSE, R |-> 0, m2p |-> EmptyDict, iter_len |-> 0,
      gi |-> 0, pname |-> "", tokens |-> << >>, by_net |-> << >>, ni |-> 0,
      all_results |-> EmptyDict, mons_left |-> << >>, to_fetch |-> {},
      issued |-> << >>, outcomes |-> EmptyDict, prev |-> NoPrev,
      t0 |-> 0, slept_at |-> 0, dur |-> 0, flying |-> {}, landed |-> {} ]

\* the ticker of display d in monitor_tickers (a dict in insertion order)
TickerIndex(mt, d) == CHOOSE i \in DOMAIN mt : mt[i].monitor_index = d

TickerKeys(mt) == { mt[i].monitor_index : i \in DOMAIN mt }

\* 1189-1195
_ensure_session(w) == IF w.session = "none" THEN [ w EXCEPT !.session = "open" ] ELSE w

\* by_net (1224-1226): network -> addresses, in first-seen order
\* a faulty grouping: one batch per token, tokens of one network not merged
OneBatchPerToken(tokens) ==
    [ i \in DOMAIN tokens |->
        [ net   |-> tokens[i].network_id,
          addrs |-> << normalize_address(tokens[i].network_id, tokens[i].address) >> ] ]

GroupByNet(tokens) ==
    LET nets == [ i \in DOMAIN tokens |-> tokens[i].network_id ]
        keys == SelectIdx(nets, [ i \in DOMAIN nets |->
                                    \A j \in 1 .. (i - 1) : nets[j] # nets[i] ])
    IN [ n \in DOMAIN keys |->
           [ net   |-> keys[n],
             addrs |-> LET of == SelectIdx(tokens,
                                           [ i \in DOMAIN tokens |->
                                               tokens[i].network_id = keys[n] ])
                       IN [ i \in DOMAIN of |->
                              normalize_address(keys[n], of[i].address) ] ] ]

\* a faulty round boundary: the renderers are torn down
round_error_closes_renderers(w, l) ==
    [ w |-> [ w EXCEPT !.monitor_tickers = << >> ],
      l |-> [ NewTask EXCEPT !.pc = "backoff", !.cancel = l.cancel,
                             !.prev = l.prev ] ]

\* a faulty round boundary: the exception ends the coroutine
RoundErrorEndsLoop(w, l) ==
    [ w |-> w, l |-> [ NewTask EXCEPT !.pc = "done", !.cancel = l.cancel ] ]

\* 1296-1298: the round boundary.  The exception is logged and the coroutine
\* sleeps 2 seconds; _ensure_session and the next iteration follow the sleep
OnRoundException(w, l) ==
    [ w |-> w,
      l |-> [ NewTask EXCEPT !.pc = "backoff", !.cancel = l.cancel,
                             !.prev = l.prev ] ]

\* 1316: asyncio.Semaphore(4), one for each call of _fetch_missing_logos
LogoGate == 4

\* a faulty gate: never closed
sem_always_free(flying) == TRUE

\* 1318: the semaphore lets another request in
sem_free(flying) == Cardinality(flying) < LogoGate

\* 1301-1314: the keys _fetch_missing_logos would fetch for these tokens
LogosToFetch(w, toks) ==
    { k \in { key_for(toks[i].network_id, toks[i].address) : i \in DOMAIN toks } :
        k \notin w.logo_cache /\ k \in DOMAIN w.state.token_logos }

\* the profiles the end of the round takes for display d (1280)
ProfilesOn(st, d) ==
    SelectIdx(st.names,
              [ i \in DOMAIN st.names |-> ps_for(st, st.names[i]).monitor_index = d ])

\* 1278-1283 for one ticker: the composed items, the opacity, the click-through
ComposeTicker(w, tk) ==
    LET d        == tk.monitor_index
        items    == _build_monitor_items(w.state, w.last_results, w.logo_cache, d, TRUE)
        tk1      == IF tk.order = << >> THEN set_initial_items(tk, items)
                    ELSE update_items(tk, items)
        profiles == ProfilesOn(w.state, d)
        tk2      == set_opacity_from_profiles(tk1,
                        { ps_for(w.state, profiles[i]).opacity : i \in DOMAIN profiles })
        all_ct   == \A i \in DOMAIN profiles : ps_for(w.state, profiles[i]).click_through
    IN set_click_through(tk2, all_ct)

\* a faulty sleep: the whole interval, however long the round took
FullSleep(R, elapsed) == R

\* 1294-1295: max(1, R - elapsed)
RoundSleep(R, elapsed) == MaxOf({ 1, R - elapsed })

\* 1276-1295: the tickers of `mons` in turn; the coroutine suspends in
\* _fetch_missing_logos when there is a logo to fetch, else runs on to the
\* end-of-round sleep
RECURSIVE ComposeFrom(_, _, _)
ComposeFrom(w, l, mons) ==
    IF mons = << >>
    THEN [ w |-> [ w EXCEPT !.status = "Refreshed" ],
           l |-> [ l EXCEPT !.pc = "round_sleep", !.mons_left = << >>,
                            !.to_fetch = {},
                            !.slept_at = w.clock,
                            !.dur = RoundSleep(l.R, w.clock - l.t0) ] ]
    ELSE LET d        == Head(mons)
             i        == TickerIndex(w.monitor_tickers, d)
             w1       == [ w EXCEPT !.monitor_tickers[i] = ComposeTicker(w, @) ]
             profiles == ProfilesOn(w.state, d)
             want     == \E j \in DOMAIN profiles :
                            ps_for(w.state, profiles[j]).show_logo
             toks     == ConcatAll([ j \in DOMAIN profiles |->
                                       tokens_for(w.state, profiles[j]) ])
             fetch    == IF want THEN LogosToFetch(w1, toks) ELSE {}
         IN IF fetch # {}
            THEN [ w |-> w1,
                   l |-> [ l EXCEPT !.pc = "logos", !.mons_left = Tail(mons),
                                    !.to_fetch = fetch ] ]
            ELSE ComposeFrom(w1, l, Tail(mons))

\* 1330-1333: the gathered logo fetches return; `got` are those that loaded
OnLogos(w, l, got) ==
    ComposeFrom([ w EXCEPT !.logo_cache = @ \cup got ],
                [ l EXCEPT !.prev = NoPrev ], l.mons_left)

\* the batch request of network ni of the current group is sent (1229-1235)
IssueBatch(w, l) ==
    [ w |-> w,
      l |-> [ l EXCEPT !.pc = "http",
                       !.issued = Append(@, << l.pname, l.by_net[l.ni].net >>) ] ]

\* 1219-1226 and 1276: the for loop over state["profiles"] moves past index i.
\* The dict iterator raises when the dict's size has changed; profiles with no
\* monitor or no token are skipped; past the last profile the round composes
FetchFrom(w, l, i) ==
    IF Len(w.state.names) # l.iter_len
    THEN OnRoundException(w, l)
    ELSE LET cand == { j \in (i + 1) .. Len(w.state.names) :
                         IsAssigned(w.state, w.state.names[j]) }
         IN IF cand = {}
            THEN ComposeFrom(w, [ l EXCEPT !.gi = 0, !.pname = "", !.tokens = << >>,
                                           !.by_net = << >>, !.ni = 0,
                                           !.all_results = EmptyDict,
                                           !.outcomes = EmptyDict ],
                             [ k \in DOMAIN w.monitor_tickers |->
                                 w.monitor_tickers[k].monitor_index ])
            ELSE LET j      == MinOf(cand)
                     tokens == tokens_for(w.state, w.state.names[j])
                 IN IssueBatch(w, [ l EXCEPT !.gi = j,
                                             !.pname = w.state.names[j],
                                             !.tokens = tokens,
                                             !.by_net = GroupByNet(tokens),
                                             !.ni = 1,
                                             !.all_results = EmptyDict,
                                             !.outcomes = EmptyDict ])

\* 1272: self.last_results[pname].update(all_results)
MergeResults(lr, pname, all_results) ==
    [ lr EXCEPT ![pname] = DictUpdate(@, all_results) ]

\* the batch of network ni is over (1229): the next network's batch, or the
\* merge of the group's results (1272) and the next group
AfterNet(w, l) ==
    IF l.ni < Len(l.by_net)
    THEN IssueBatch(w, [ l EXCEPT !.ni = @ + 1 ])
    ELSE FetchFrom([ w EXCEPT !.last_results =
                                 MergeResults(@, l.pname, l.all_results) ],
                   [ l EXCEPT !.prev = [ pname |-> l.pname, tokens |-> l.tokens,
                                         outcomes |-> l.outcomes ] ],
                   l.gi)

\* 1236-1243: non-200 status, transport error, timeout, undecodable body
OnBatchFailed(w, l) ==
    AfterNet(w, [ l EXCEPT !.prev = NoPrev,
                           !.outcomes = (l.by_net[l.ni].net :>
                                           [ kind |-> "fail", samples |-> EmptyDict ])
                                        @@ @ ])

\* 1247-1270 for the records of one payload, in order.  A record whose
\* relationships or top_pools member is null makes the code raise (bad);
\* the names and icon URLs of the records before it are already stored
ProcessPayload(w, l, payload) ==
    LET net == l.by_net[l.ni].net
        F[i \in 0 .. Len(payload)] ==
            IF i = 0
            THEN [ names |-> w.state.token_names, logos |-> w.state.token_logos,
                   res |-> EmptyDict, raised |-> FALSE ]
            ELSE LET p   == F[i-1]
                     rec == payload[i]
                     base_key == key_for(net, normalize_address(net, rec.address))
                 IN IF p.raised \/ rec.bad THEN [ p EXCEPT !.raised = TRUE ]
                    ELSE [ names  |-> IF rec.name # << >>
                                      THEN (base_key :> rec.name) @@ p.names
                                      ELSE p.names,
                           logos  |-> IF ps_for(w.state, l.pname).show_logo
                                         /\ rec.image_url # << >>
                                      THEN (base_key :> rec.image_url) @@ p.logos
                                      ELSE p.logos,
                           res    |-> (base_key :> [ price |-> rec.price_usd,
                                                     h24 |-> rec.h24, m5 |-> rec.m5 ])
                                      @@ p.res,
                           raised |-> FALSE ]
    IN F[Len(payload)]

\* a faulty success: the response is dropped like a failed one
batch_ok_as_failed(w, l, payload) == OnBatchFailed(w, l)

\* 1240-1270: a 200 response whose body decoded to `payload`
OnBatchOk(w, l, payload) ==
    LET r  == ProcessPayload(w, l, payload)
        w1 == [ w EXCEPT !.state.token_names = r.names,
                         !.state.token_logos = r.logos ]
    IN IF r.raised
       THEN OnRoundException(w1,
                [ l EXCEPT !.prev = [ pname |-> l.pname, tokens |-> l.tokens,
                                      outcomes |-> l.outcomes ] ])
       ELSE AfterNet(w1,
                [ l EXCEPT !.prev = NoPrev,
                           !.all_results = DictUpdate(@, r.res),
                           !.outcomes = (l.by_net[l.ni].net :>
                                           [ kind |-> "ok", samples |-> r.res ])
                                        @@ @ ])

\* a faulty head: with nothing to show the coroutine returns instead of polling
RunHeadOnce(w, l) ==
    LET m2p == mon_to_profiles(w.state)
    IN IF m2p.keys = << >>
       THEN [ w |-> [ w EXCEPT !.status = "No visible profiles." ],
              l |-> [ NewTask EXCEPT !.pc = "done", !.cancel = l.cancel ] ]
       ELSE FetchFrom(w,
                      [ NewTask EXCEPT !.cancel = l.cancel,
                                       !.R = RoundInterval(w.state, m2p),
                                       !.m2p = m2p.m,
                                       !.iter_len = Len(w.state.names) ],
                      0)

\* 1199-1217: the head of an iteration of the while loop
RunHead(w, l) ==
    LET m2p == mon_to_profiles(w.state)
        w1  == [ w EXCEPT !.assignment = [ by |-> "refresh_loop",
                                           keys |-> m2p.keys, m |-> m2p.m ] ]
    IN IF m2p.keys = << >>
       THEN [ w |-> [ w1 EXCEPT !.status = "No visible profiles." ],
              l |-> [ NewTask EXCEPT !.pc = "idle_sleep", !.cancel = l.cancel ] ]
       ELSE FetchFrom(w1,
                      [ NewTask EXCEPT !.cancel = l.cancel,
                                       !.t0 = w.clock,
                                       !.R = RoundInterval(w.state, m2p),
                                       !.m2p = m2p.m,
                                       !.iter_len = Len(w.state.names) ],
                      0)

---------------------------------------------------------------------------
(* The controller's handlers: app.py 1112-1153, Dashboard.save_settings 710-728 *)

\* Dashboard.add_token (644-661) once the dialog is accepted: typed and custom
\* are the dialog's fields, stripped (316-317); looked_up is what
\* fetch_token_name_sync returned, << >> for nothing; the group is the one
\* selected in the profile list, which on_profile_changed keeps as active_profile
add_token(w, net, typed, custom, looked_up) ==
    LET addr  == normalize_address(net, strip(typed))
        entry == [ network_id |-> net, address |-> addr, custom_name |-> strip(custom) ]
        k     == key_for(net, addr)
        prof  == w.state.active_profile
        w1    == IF k \notin DOMAIN w.state.token_names /\ looked_up # << >>
                 THEN [ w EXCEPT !.state.token_names = (k :> looked_up) @@ @ ]
                 ELSE w
        w2    == [ w1 EXCEPT !.state.profiles[prof] = Append(@, entry) ]
    IN IF addr = << >> THEN w
       ELSE [ w2 EXCEPT !.disk = w2.state.profiles ]

\* Dashboard.add_profile (610-620) for a name that is not taken: the group is
\* appended with no tokens and default settings, saved, and selected
\* (setCurrentRow sets off on_profile_changed, 604-606)
add_profile(w, name) ==
    IF name \in Range(w.state.names) THEN w
    ELSE LET st == [ w.state EXCEPT
                       !.names = Append(@, name),
                       !.profiles = @ @@ (name :> << >>),
                       !.profile_settings = @ @@ (name :> DefaultSettings),
                       !.active_profile = name ]
         IN [ w EXCEPT !.state = st, !.disk = st.profiles ]

\* the position of name in names, 0 when it is not there (list.index)
IndexOf(names, name) ==
    IF \E i \in DOMAIN names : names[i] = name
    THEN MinOf({ i \in DOMAIN names : names[i] = name })
    ELSE 0

\* a faulty hotkey handler: the group before the active one, not the one after
cycle_backwards(w) ==
    LET names == w.state.names
        i     == IndexOf(names, w.state.active_profile)
    IN IF names = << >> THEN w
       ELSE [ w EXCEPT !.state.active_profile =
                           names[((i + Len(names) - 2) % Len(names)) + 1] ]

\* 1092-1100, with on_profile_changed (604-608) that setCurrentRow sets off:
\* i is zero-based in the code (-1 for a name not in the list), one-based here
cycle_active_profile(w) ==
    LET names == w.state.names
        i     == IndexOf(names, w.state.active_profile)
    IN IF names = << >> THEN w
       ELSE [ w EXCEPT !.state.active_profile = names[(i % Len(names)) + 1] ]

\* 1123-1131: the ticker start_all builds for display mon_idx
StartTicker(w, mon_idx, profiles) ==
    LET tk0    == NewTicker(mon_idx)
        tk1    == set_opacity_from_profiles(tk0,
                      { ps_for(w.state, profiles[i]).opacity : i \in DOMAIN profiles })
        all_ct == \A i \in DOMAIN profiles : ps_for(w.state, profiles[i]).click_through
        tk2    == set_click_through(tk1, all_ct)
        items  == _build_monitor_items(w.state, w.last_results, w.logo_cache,
                                       mon_idx, TRUE)
        tk3    == set_initial_items(tk2, items)
    IN resizeEvent(tk3, tk3.width)     \* tk.show() delivers the first resizeEvent

\* a faulty restart: the task in refresh_task is left running
LeaveTaskRunning(w) == w

\* Task.cancel() on refresh_task unless it is done (1133-1134, 1139-1140,
\* 1144-1145).  The coroutine of a cancelled task runs no statement of
\* refresh_loop again, so of its locals only the suspension point is kept,
\* and the logo requests in flight, which last until the task is next run
CancelRefreshTask(w) ==
    IF w.refresh_task # None /\ w.refresh_task \in DOMAIN w.tasks
    THEN [ w EXCEPT !.tasks[w.refresh_task] =
                        [ NewTask EXCEPT !.cancel = TRUE,
                                         !.pc = w.tasks[w.refresh_task].pc,
                                         !.flying = w.tasks[w.refresh_task].flying ] ]
    ELSE w

\* asyncio.create_task(self.refresh_loop()) (1135)
CreateRefreshTask(w) ==
    LET id == MinOf({ i \in 1 .. MaxTasks : i \notin DOMAIN w.tasks })
    IN [ w EXCEPT !.tasks = (id :> NewTask) @@ @, !.refresh_task = id ]

\* a faulty start: the renderers there are are left as they are
start_all_keeping_renderers(w) ==
    CreateRefreshTask(CancelRefreshTask([ w EXCEPT !.lifecycle = "started" ]))

\* 1112-1136
start_all(w) ==
    LET m2p == mon_to_profiles(w.state)
        w1  == [ w EXCEPT
                   !.monitor_tickers =
                       [ i \in DOMAIN m2p.keys |->
                           StartTicker(w, m2p.keys[i], m2p.m[m2p.keys[i]]) ],
                   !.assignment = [ by |-> "start_all", keys |-> m2p.keys,
                                    m |-> m2p.m ],
                   !.lifecycle = "started" ]
    IN CreateRefreshTask(CancelRefreshTask(w1))

\* a faulty pause: the task is left to run on
pause_without_cancel(w) == [ w EXCEPT !.lifecycle = "paused" ]

\* a faulty pause: the renderers are torn down as stop_all does
pause_closing_tickers(w) ==
    [ CancelRefreshTask(w) EXCEPT !.monitor_tickers = << >>, !.lifecycle = "paused" ]

\* a faulty stop: the result cache is emptied with the renderers
stop_clearing_cache(w) ==
    [ CancelRefreshTask(w) EXCEPT !.monitor_tickers = << >>,
                                  !.lifecycle = "stopped",
                                  !.last_results = [ p \in DOMAIN @ |-> EmptyDict ] ]

\* a faulty stop: the renderers are torn down, the task is not cancelled
stop_without_cancel(w) ==
    [ w EXCEPT !.monitor_tickers = << >>, !.lifecycle = "stopped" ]

\* 1138-1141
pause_all(w) == [ CancelRefreshTask(w) EXCEPT !.lifecycle = "paused" ]

\* 1143-1149
stop_all(w) ==
    [ CancelRefreshTask(w) EXCEPT !.monitor_tickers = << >>,
                                  !.lifecycle = "stopped" ]

\* 1151-1153 (install_hotkey touches nothing the engine reads)
apply_profile_settings_live(w) == start_all(w)

\* Dashboard.save_settings (710-728): the profile's monitor and click-through
\* as the form holds them, then settingsChanged, which runs
\* apply_profile_settings_live before save_settings returns
save_settings(w, pname, mon, ct) ==
    apply_profile_settings_live(
        [ w EXCEPT !.state.profile_settings[pname].monitor_index = mon,
                   !.state.profile_settings[pname].click_through = ct,
                   !.disk = w.state.profiles ])

---------------------------------------------------------------------------
(* What the feed may answer *)

FeedName == << "T" >>
FeedIcon == << "u" >>

\* a token record of a 200 response with every field present
FullRecord(addr, price) ==
    [ address |-> addr, price_usd |-> price, h24 |-> 3, m5 |-> 4,
      name |-> FeedName, image_url |-> FeedIcon, bad |-> FALSE ]

\* a record with no price, no name, no icon and no pool
SparseRecord(addr) ==
    [ address |-> addr, price_usd |-> None, h24 |-> None, m5 |-> None,
      name |-> << >>, image_url |-> << >>, bad |-> FALSE ]

\* a record whose relationships member is null
BadRecord(addr) == [ SparseRecord(addr) EXCEPT !.bad = TRUE ]

RecordsFor(addrs) ==
    { FullRecord(a, p) : a \in Range(addrs), p \in Prices }
    \cup { SparseRecord(a) : a \in Range(addrs) }
    \cup { BadRecord(a) : a \in Range(addrs) }

\* the bodies a 200 response to a batch for `addrs` may carry
Payloads(addrs) ==
    { << >> } \cup { << r >> : r \in RecordsFor(addrs) }

---------------------------------------------------------------------------
(* Actions of the controller specification *)

FreeTaskId == \E i \in 1 .. MaxTasks : i \notin DOMAIN tasks

Live(t) == t \in DOMAIN tasks /\ ~ tasks[t].cancel

\* the result of running task t's coroutine to its next await
Resumed(t, r) == Becomes([ r.w EXCEPT !.tasks[t] = r.l ])

StartAll == FreeTaskId /\ Becomes(start_all(Cur))

\* Save pressed on the second group's form, its monitor set to none or to
\* display 1 (with the form unchanged this is settingsChanged alone)
SaveSettings ==
    /\ FreeTaskId
    /\ \E mon \in { None, 1 } :
          Becomes(save_settings(Cur, "P2", mon, ps_for(state, "P2").click_through))

PauseAll == Becomes(pause_all(Cur))

StopAll == Becomes(stop_all(Cur))

\* the event loop runs a new task for the first time: 1198, then the loop
TaskFirstStep(t) ==
    /\ Live(t) /\ tasks[t].pc = "new"
    /\ Resumed(t, RunHead(_ensure_session(Cur), tasks[t]))

\* asyncio.sleep returns: the idle poll (1208) or the end-of-round sleep (1295)
WakeFromSleep(t) ==
    /\ Live(t) /\ tasks[t].pc \in { "idle_sleep", "round_sleep" }
    /\ Resumed(t, RunHead(Cur, tasks[t]))

\* the backoff sleep returns (1298): _ensure_session (1299), then the loop
WakeFromBackoff(t) ==
    /\ Live(t) /\ tasks[t].pc = "backoff"
    /\ Resumed(t, RunHead(_ensure_session(Cur), tasks[t]))

BatchFails(t) ==
    /\ Live(t) /\ tasks[t].pc = "http"
    /\ Resumed(t, OnBatchFailed(Cur, tasks[t]))

BatchSucceeds(t) ==
    /\ Live(t) /\ tasks[t].pc = "http"
    /\ \E payload \in Payloads(tasks[t].by_net[tasks[t].ni].addrs) :
          Resumed(t, OnBatchOk(Cur, tasks[t], payload))

LogosReturn(t) ==
    /\ Live(t) /\ tasks[t].pc = "logos"
    /\ \E got \in SUBSET tasks[t].to_fetch :
          Resumed(t, OnLogos(Cur, tasks[t], got))

\* the event loop runs a task whose cancel() was called: CancelledError is
\* thrown at its await (or before its first step), no handler of refresh_loop
\* catches it, and the task is done
TaskCancelled(t) ==
    /\ t \in DOMAIN tasks /\ tasks[t].cancel
    /\ tasks' = [ u \in (DOMAIN tasks) \ {t} |-> tasks[u] ]
    /\ UNCHANGED << state, last_results, logo_cache, session, monitor_tickers,
                    refresh_task, status, lifecycle, assignment, disk, clock >>

TaskStep ==
    \E t \in 1 .. MaxTasks :
        \/ TaskFirstStep(t)
        \/ WakeFromSleep(t)
        \/ WakeFromBackoff(t)
        \/ BatchFails(t)
        \/ BatchSucceeds(t)
        \/ LogosReturn(t)
        \/ TaskCancelled(t)

---------------------------------------------------------------------------
(* The configurations the controller specification starts from *)

TokA == Token(<< "e" >>, << "0", "x", "a" >>)
TokB == Token(<< "s" >>, << "B" >>)
TokC == Token(<< "b" >>, << "0", "x", "c" >>)

GroupNames == << "P1", "P2" >>

Settings(mon, ct, refresh, logo) ==
    [ DefaultSettings EXCEPT !.monitor_index = mon, !.click_through = ct,
                             !.refresh_sec = refresh, !.show_logo = logo ]

Config(t1, s1, t2, s2) ==
    [ names            |-> GroupNames,
      profiles         |-> ("P1" :> t1) @@ ("P2" :> t2),
      profile_settings |-> ("P1" :> s1) @@ ("P2" :> s2),
      active_profile   |-> "P1",
      token_names      |-> EmptyDict,
      token_logos      |-> EmptyDict ]

InitWorld(cfg) ==
    /\ state = cfg
    /\ last_results = [ p \in Range(GroupNames) |-> EmptyDict ]
    /\ logo_cache = {}
    /\ session = "none"
    /\ monitor_tickers = << >>
    /\ refresh_task = None
    /\ tasks = EmptyDict
    /\ status = "Idle"
    /\ lifecycle = "init"
    /\ assignment = [ by |-> "none", keys |-> << >>, m |-> EmptyDict ]
    /\ disk = cfg.profiles
    /\ clock = 0

\* the controller's life cycle: one group with a token and logos on display
\* 0, a second group with a token on no display or on display 1
Init ==
    \E m2 \in { None, 1 } :
        InitWorld(Config(<< TokA >>, Settings(0, TRUE, 30, TRUE),
                         << TokB >>, Settings(m2, TRUE, 15, FALSE)))

Next == StartAll \/ SaveSettings \/ PauseAll \/ StopAll \/ TaskStep

Spec == Init /\ [][Next]_vars

---------------------------------------------------------------------------
(* The fetch phase on its own: one group with tokens on three networks *)

\* Start Tracking pressed once
StartTracking == lifecycle = "init" /\ StartAll

RoundStep ==
    \E t \in 1 .. MaxTasks :
        \/ TaskFirstStep(t)
        \/ WakeFromSleep(t)
        \/ WakeFromBackoff(t)
        \/ BatchFails(t)
        \/ BatchSucceeds(t)

InitFetch ==
    InitWorld(Config(<< TokA, TokB, TokC >>, Settings(0, TRUE, 30, FALSE),
                     << >>, Settings(None, TRUE, 15, FALSE)))

NextFetch == StartTracking \/ RoundStep

SpecFetch == InitFetch /\ [][NextFetch]_vars

---------------------------------------------------------------------------
(* The resolver and the per-display aggregates over every configuration of
   two groups *)

RefreshChoices == { 5, 15, 30 }

InitAssign ==
    \E t1 \in { << >>, << TokA >> }, t2 \in { << >>, << TokB >> },
       m1 \in {None} \cup Displays, m2 \in {None} \cup Displays,
       c1 \in BOOLEAN, c2 \in BOOLEAN,
       r1 \in RefreshChoices, r2 \in RefreshChoices :
        InitWorld(Config(t1, Settings(m1, c1, r1, FALSE),
                         t2, Settings(m2, c2, r2, FALSE)))

NextAssign == StartTracking \/ RoundStep

SpecAssign == InitAssign /\ [][NextAssign]_vars

---------------------------------------------------------------------------
(* One renderer on its own: the item lists a round may hand it, the render
   tick and the screen's geometry changes *)

\* identities the composer gives the tokens of group P1 on network "e"
ItemKey(c) == merged_key("P1", key_for(<< "e" >>, << c >>))

ShortKeys == << ItemKey("a"), ItemKey("b"), ItemKey("c"), ItemKey("d") >>

Item(key, text) == [ key |-> key, text |-> text, show_logo |-> FALSE, pixmap |-> FALSE ]

NarrowItem(key) == Item(key, << "narrow" >>)

\* the empty list; one item; two items in either order, repeated, and with a
\* wide text; three items, their successor with one identity gone and one
\* new, and their reverse
ShortLists ==
    LET A  == NarrowItem(ShortKeys[1])
        Aw == Item(ShortKeys[1], << "wide" >>)
        B  == NarrowItem(ShortKeys[2])
        C  == NarrowItem(ShortKeys[3])
        D  == NarrowItem(ShortKeys[4])
    IN { << >>, << A >>, << Aw >>, << B >>,
         << A, B >>, << B, A >>, << A, A >>, << Aw, B >>,
         << A, B, C >>, << B, C, D >>, << C, B, A >> }

\* n distinct narrow items
LongList(n) ==
    LET digits == << "0", "1", "2", "3", "4", "5", "6", "7", "8", "9", "A", "B" >>
    IN [ i \in 1 .. n |-> NarrowItem(ItemKey(digits[i])) ]

ItemLists == ShortLists \cup { LongList(MarqueeItemLimit), LongList(MarqueeItemLimit + 1) }

ScreenWidths == { NarrowScreenW, WideScreenW }

TheTicker == monitor_tickers[1]

TickerBecomes(tk) ==
    /\ monitor_tickers' = << tk >>
    /\ UNCHANGED << state, last_results, logo_cache, session, refresh_task, tasks,
                    status, lifecycle, assignment, disk, clock >>

\* the end of a round on a renderer that holds nothing (1278)
SetInitialItems(items) ==
    /\ monitor_tickers # << >>
    /\ TheTicker.order = << >>
    /\ TickerBecomes(set_initial_items(TheTicker, items))

\* the end of a round on a renderer that holds items (1279)
UpdateItems(items) ==
    /\ monitor_tickers # << >>
    /\ TheTicker.order # << >>
    /\ TickerBecomes(update_items(TheTicker, items))

EndOfRound == \E items \in ItemLists : SetInitialItems(items) \/ UpdateItems(items)

\* the 16 ms timer
ScrollStep ==
    /\ monitor_tickers # << >>
    /\ TheTicker._marquee
    /\ TheTicker._offset < MaxOffset
    /\ TickerBecomes(_scroll_step(TheTicker))

\* geometryChanged of the renderer's screen
ScreenChange ==
    /\ monitor_tickers # << >>
    /\ \E w \in ScreenWidths : TickerBecomes(_on_screen_change(TheTicker, w))

\* one group with one token, on either display
InitTicker ==
    \E d \in Displays :
        InitWorld(Config(<< TokA >>, Settings(d, TRUE, 30, FALSE),
                         << >>, Settings(None, TRUE, 15, FALSE)))

NextTicker == StartTracking \/ EndOfRound \/ ScrollStep \/ ScreenChange

SpecTicker == InitTicker /\ [][NextTicker]_vars

---------------------------------------------------------------------------
(* Properties of the controller *)

\* the awaits of refresh_loop, and the state of a task not yet run
LoopPoints == { "new", "idle_sleep", "round_sleep", "backoff", "http", "logos" }

\* C2: refresh_loop never ends because of an exception raised in a round.  A
\* task leaves the event loop only after it was cancelled; a task that was not
\* cancelled is always suspended at an await of the loop; and when the backoff
\* sleep of a task that caught an exception returns, the session is open and
\* the task has gone into another iteration
C2_LoopSurvivesExceptions ==
    [][ \A t \in 1 .. MaxTasks :
          /\ (t \in DOMAIN tasks /\ t \notin DOMAIN tasks') => tasks[t].cancel
          /\ (t \in DOMAIN tasks' /\ ~ tasks'[t].cancel) => tasks'[t].pc \in LoopPoints
          /\ ( /\ t \in DOMAIN tasks /\ t \in DOMAIN tasks'
               /\ ~ tasks[t].cancel /\ ~ tasks'[t].cancel
               /\ tasks[t].pc = "backoff" /\ tasks'[t] # tasks[t] )
             => /\ session' = "open"
                /\ tasks'[t].pc \in LoopPoints \ { "new" } ]_vars

\* a task that caught an exception of its round and is in the backoff sleep
C2_Witness ==
    \E t \in DOMAIN tasks :
        ~ tasks[t].cancel /\ tasks[t].pc = "backoff" /\ session = "open"

\* C3: two rounds never run at once.  At most one refresh_loop task has not
\* been cancelled, and it is the task the controller holds in refresh_task;
\* every other task the event loop still holds is cancelled
C3_OneLiveLoop ==
    /\ Cardinality({ t \in DOMAIN tasks : ~ tasks[t].cancel }) <= 1
    /\ \A t \in DOMAIN tasks : ~ tasks[t].cancel => t = refresh_task

\* a restart while a batch request was in flight: the old task is cancelled
\* at its request, the new task has sent its own
C3_Witness ==
    \E t \in DOMAIN tasks, u \in DOMAIN tasks :
        /\ tasks[t].cancel /\ tasks[t].pc = "http"
        /\ ~ tasks[u].cancel /\ tasks[u].pc = "http"

\* C4: pause_all cancels the scheduler task and nothing else: the renderers,
\* their item lists and orders, the result cache and the configuration are
\* as before, no task is added or removed, and only the task in refresh_task
\* is touched
C4_PauseKeepsDisplays ==
    [][ PauseAll =>
          /\ monitor_tickers' = monitor_tickers
          /\ last_results' = last_results
          /\ state' = state
          /\ refresh_task' = refresh_task
          /\ DOMAIN tasks' = DOMAIN tasks
          /\ \A t \in DOMAIN tasks :
                IF t = refresh_task THEN tasks'[t].cancel
                ELSE tasks'[t] = tasks[t] ]_vars

\* paused with a renderer that shows items and a result cache that holds
\* samples, the scheduler task cancelled
C4_Witness ==
    /\ lifecycle = "paused"
    /\ \E i \in DOMAIN monitor_tickers : monitor_tickers[i].order # << >>
    /\ last_results["P1"] # EmptyDict
    /\ refresh_task \in DOMAIN tasks /\ tasks[refresh_task].cancel

\* C5: after stop_all no renderer exists, and until start_all runs again no
\* task sends a batch request or a logo request: while the last of start,
\* pause and stop invoked is not start, no task arrives at a request
C5_StoppedIsSilent ==
    [][ /\ lifecycle' = "stopped" => monitor_tickers' = << >>
        /\ (lifecycle # "started" /\ lifecycle' # "started")
           => \A t \in DOMAIN tasks' :
                 /\ t \in DOMAIN tasks
                 /\ tasks'[t].pc \in { "http", "logos" } => tasks'[t] = tasks[t] ]_vars

\* stopped while a batch request was in flight
C5_Witness ==
    /\ lifecycle = "stopped"
    /\ monitor_tickers = << >>
    /\ \E t \in DOMAIN tasks : tasks[t].pc = "http"

---------------------------------------------------------------------------
(* Properties of the fetch phase *)

\* the end of a group's fetch in this step, by the merge of line 1272 or by
\* an exception: the task, if one, whose step recorded it
EndsFetch(t) ==
    /\ t \in DOMAIN tasks /\ t \in DOMAIN tasks'
    /\ tasks'[t] # tasks[t]
    /\ tasks'[t].prev.pname # ""

\* C1: partial failure isolation.  When the fetch of a group in which the
\* batch of one network failed and the batch of another succeeded is over,
\* the result cache of the group holds the samples the successful batch
\* returned and holds for every token of the failed network what it held
\* before: the same sample, or none as before
C1_PartialFailureIsolation ==
    [][ \A t \in 1 .. MaxTasks :
          EndsFetch(t) =>
            LET pv   == tasks'[t].prev
                was  == last_results[pv.pname]
                now  == last_results'[pv.pname]
                nets == DOMAIN pv.outcomes
            IN ( /\ \E n \in nets : pv.outcomes[n].kind = "fail"
                 /\ \E n \in nets : pv.outcomes[n].kind = "ok" )
               => \A n \in nets :
                     IF pv.outcomes[n].kind = "ok"
                     THEN \A k \in DOMAIN pv.outcomes[n].samples :
                             k \in DOMAIN now /\ now[k] = pv.outcomes[n].samples[k]
                     ELSE \A i \in DOMAIN pv.tokens :
                             pv.tokens[i].network_id = n
                             => LET k == key_for(n, pv.tokens[i].address)
                                IN /\ (k \in DOMAIN now) = (k \in DOMAIN was)
                                   /\ k \in DOMAIN was => now[k] = was[k] ]_vars

---------------------------------------------------------------------------
(* Properties of the resolver and of the per-display aggregates *)

\* the groups the configuration declares for display d and gives a token,
\* in declaration order
DeclaredOn(d) ==
    SelectIdx(state.names,
              [ i \in DOMAIN state.names |->
                  /\ state.profile_settings[state.names[i]].monitor_index = d
                  /\ state.profiles[state.names[i]] # << >> ])

\* C6: the resolver, in start_all and at the head of every iteration of
\* refresh_loop, lists a group under display d if and only if the group's
\* target is d and its token list is not empty, in declaration order; a
\* display with no such group is not listed at all
C6_ResolverLists ==
    assignment.by # "none" =>
        /\ DOMAIN assignment.m = { d \in Displays : DeclaredOn(d) # << >> }
        /\ Range(assignment.keys) = DOMAIN assignment.m
        /\ \A d \in DOMAIN assignment.m : assignment.m[d] = DeclaredOn(d)

\* refresh_loop has resolved two groups that both have a target, one of them
\* without a token
C6_Witness ==
    /\ assignment.by = "refresh_loop"
    /\ assignment.keys # << >>
    /\ \E p \in Range(state.names) :
          /\ state.profile_settings[p].monitor_index \in DOMAIN assignment.m
          /\ state.profiles[p] = << >>

GroupRefresh(p) == state.profile_settings[p].refresh_sec

\* the interval C7 states for display d of an assignment m
IntervalOf(m, d) == MaxOf({ MinRefresh } \cup { GroupRefresh(p) : p \in Range(m[d]) })

\* the interval over the groups of every display of an assignment m
IntervalOverAll(m) ==
    MaxOf({ MinRefresh }
          \cup { GroupRefresh(p) : p \in UNION { Range(m[d]) : d \in DOMAIN m } })

\* a task in the sleep that ends its round
Sleeping(t) == ~ tasks[t].cancel /\ tasks[t].pc = "round_sleep"

C10_ClickThroughOfAssigned ==
    \A i \in DOMAIN monitor_tickers :
        monitor_tickers[i].click_through
        = (\A p \in Range(DeclaredOn(monitor_tickers[i].monitor_index)) :
              state.profile_settings[p].click_through)

---------------------------------------------------------------------------
(* Properties of the renderer *)

\* C8: after update_items the order is the identities of the new list in
\* the new list's order and the layout holds their widgets in that order;
\* an identity of the old list that is in the new list keeps its widget
\* object, which shows the new item's text; an identity that is not in the
\* new list is gone; the renderer holds exactly the new list's identities
C8_Reconciliation ==
    [][ \A items \in ItemLists :
          UpdateItems(items) =>
            LET old  == monitor_tickers[1]
                new  == monitor_tickers'[1]
                keys == [ i \in DOMAIN items |-> items[i].key ]
                last(k) == items[MaxOf({ i \in DOMAIN items : items[i].key = k })]
            IN /\ new.order = keys
               /\ DOMAIN new.items = Range(keys)
               /\ new.hbox = [ i \in DOMAIN keys |-> new.items[keys[i]] ]
               /\ \A k \in DOMAIN old.items :
                     IF k \in Range(keys)
                     THEN /\ new.items[k] = old.items[k]
                          /\ new.widgets[new.items[k]].text = last(k).text
                     ELSE /\ k \notin DOMAIN new.items
                          /\ old.items[k] \notin DOMAIN new.widgets ]_vars

\* three identities shown in the reverse of the order their widgets were made in
C8_Witness ==
    /\ monitor_tickers # << >>
    /\ monitor_tickers[1].order = << ShortKeys[3], ShortKeys[2], ShortKeys[1] >>
    /\ monitor_tickers[1].items[ShortKeys[1]] < monitor_tickers[1].items[ShortKeys[2]]
    /\ monitor_tickers[1].items[ShortKeys[2]] < monitor_tickers[1].items[ShortKeys[3]]

---------------------------------------------------------------------------
(* The background opacity: two groups with their own opacities *)

OpacityChoices == { 30, 90 }

InitOpacity ==
    \E t2 \in { << >>, << TokB >> },
       m1 \in {None} \cup Displays, m2 \in {None} \cup Displays,
       o1 \in OpacityChoices, o2 \in OpacityChoices :
        InitWorld(Config(<< TokA >>,
                         [ Settings(m1, TRUE, 30, FALSE) EXCEPT !.opacity = o1 ],
                         t2,
                         [ Settings(m2, TRUE, 30, FALSE) EXCEPT !.opacity = o2 ]))

NextOpacity == StartTracking \/ RoundStep

SpecOpacity == InitOpacity /\ [][NextOpacity]_vars

\* C11: the background opacity of every renderer, as start_all and the end
\* of a round set it, is the maximum opacity among the groups assigned to its
\* display (target and a token); no other group's opacity counts
C11_OpacityOfAssigned ==
    \A i \in DOMAIN monitor_tickers :
        LET on == Range(DeclaredOn(monitor_tickers[i].monitor_index))
        IN on # {} =>
             monitor_tickers[i].bg_opacity
             = MaxOf({ state.profile_settings[p].opacity : p \in on })


---------------------------------------------------------------------------
(* Start-up: state.json as somebody left it, read by load_state *)

\* network ids and addresses a stored token may carry: nothing validates
\* either; "0X" is not the prefix startswith("0x") looks for
RawNets == { << "e" >>, << "e", ":", "s" >> }

RawAddresses ==
    { << >>,
      << "0", "x", "A", "b" >>, << "0", "x", "a", "B" >>,
      << "0", "X", "A" >>, << "A" >>, << "a" >>,
      << "s", ":", "A" >> }

RawTokens == { Token(n, a) : n \in RawNets, a \in RawAddresses }

\* the application is not running: two tokens in the first group's list
InitDisk ==
    \E t1 \in RawTokens, t2 \in RawTokens :
        /\ disk = ("P1" :> << t1, t2 >>) @@ ("P2" :> << >>)
        /\ state = Config(<< >>, Settings(0, TRUE, 30, FALSE),
                          << >>, Settings(None, TRUE, 30, FALSE))
        /\ last_results = [ p \in Range(GroupNames) |-> EmptyDict ]
        /\ logo_cache = {}
        /\ session = "none"
        /\ monitor_tickers = << >>
        /\ refresh_task = None
        /\ tasks = EmptyDict
        /\ status = "Idle"
        /\ lifecycle = "off"
        /\ assignment = [ by |-> "none", keys |-> << >>, m |-> EmptyDict ]
        /\ clock = 0

\* Controller.__init__ (1026): load_state reads the file, normalises, saves
LoadState ==
    /\ lifecycle = "off"
    /\ Becomes([ Cur EXCEPT !.state.profiles = load_state(disk),
                            !.disk = load_state(disk),
                            !.lifecycle = "init" ])

NextDisk == LoadState \/ StartTracking

SpecDisk == InitDisk /\ [][NextDisk]_vars

\* two addresses that differ in nothing but the case of their letters
SameLetters(a, b) ==
    /\ Len(a) = Len(b)
    /\ \A k \in DOMAIN a : LowerChar(a[k]) = LowerChar(b[k])

\* C12: loading normalises every stored address so that normalising it again
\* (as tokens_for does) changes nothing; two addresses that both start with
\* "0x" and differ only in letter case are loaded as the same address; an
\* address that does not start with "0x" is loaded unchanged.
C12_NormalizeAddress ==
    [][ (lifecycle = "off" /\ lifecycle' = "init") =>
          \A i \in DOMAIN disk["P1"] :
              LET raw    == disk["P1"][i].address
                  loaded == state'.profiles["P1"][i].address
              IN /\ tokens_for(state', "P1")[i].address = loaded
                 /\ ~StartsWith0x(raw) => loaded = raw
                 /\ \A j \in DOMAIN disk["P1"] :
                        ( /\ StartsWith0x(raw)
                          /\ StartsWith0x(disk["P1"][j].address)
                          /\ SameLetters(raw, disk["P1"][j].address) )
                        => state'.profiles["P1"][j].address = loaded ]_vars

\* loaded: a "0x" address in lower case that no stored address equals, beside
\* a "0X" address with its capitals kept
C12_Witness ==
    /\ lifecycle = "init"
    /\ state.profiles["P1"][1].address = << "0", "x", "a", "b" >>
    /\ state.profiles["P1"][2].address = << "0", "X", "A" >>

\* C13: two loaded tokens have the same key exactly when they have the same
\* network id and the same normalised address.
C13_KeyIdentity ==
    lifecycle # "off" =>
        \A i, j \in DOMAIN state.profiles["P1"] :
            LET t == state.profiles["P1"][i]
                u == state.profiles["P1"][j]
            IN key_for(t.network_id, t.address) = key_for(u.network_id, u.address)
               <=> ( /\ t.network_id = u.network_id
                     /\ normalize_address(t.network_id, t.address)
                        = normalize_address(u.network_id, u.address) )


---------------------------------------------------------------------------
(* Batching: groups that share a network, tokens that share a network *)

TokD == Token(<< "e" >>, << "D" >>)

\* the first group on display 0 with two tokens of one or two networks, the second
\* group empty or with a token of that network, on no display, 0 or 1
InitBatch ==
    \E t1 \in { << TokA, TokD >>, << TokB, TokA >> },
       t2 \in { << >>, << TokA >> },
       m2 \in {None} \cup Displays :
        InitWorld(Config(t1, Settings(0, TRUE, 30, FALSE),
                         t2, Settings(m2, TRUE, 30, FALSE)))

NextBatch == StartTracking \/ RoundStep

SpecBatch == InitBatch /\ [][NextBatch]_vars

\* the networks of a token list, each once, in the order of first occurrence
DistinctNets(tokens) ==
    LET nets == [ i \in DOMAIN tokens |-> tokens[i].network_id ]
    IN SelectIdx(nets, [ i \in DOMAIN nets |->
                           \A j \in 1 .. (i - 1) : nets[j] # nets[i] ])

\* one (group, network) pair per group with a display and a token, and per
\* distinct network of that group, in declaration order
ExpectedBatches(st) ==
    ConcatAll([ g \in DOMAIN st.names |->
                  LET p == st.names[g]
                  IN IF st.profile_settings[p].monitor_index # None
                        /\ st.profiles[p] # << >>
                     THEN [ n \in DOMAIN DistinctNets(st.profiles[p]) |->
                              << p, DistinctNets(st.profiles[p])[n] >> ]
                     ELSE << >> ])

\* C14: the batch requests a round has issued so far are the first of the
\* expected (group, network) pairs, each once: none for a group without a
\* display or without tokens, one per group even when two groups share a
\* network; when the round's fetch phase is through, every pair has been issued.
C14_OneBatchPerGroupAndNet ==
    \A t \in DOMAIN tasks :
        LET exp == ExpectedBatches(state)
            got == tasks[t].issued
        IN /\ Len(got) <= Len(exp)
           /\ got = SubSeq(exp, 1, Len(got))
           /\ tasks[t].pc \in { "logos", "round_sleep" } => got = exp

\* a finished round of two groups on network e, the first with two tokens of it
C14_Witness ==
    \E t \in DOMAIN tasks :
        /\ tasks[t].pc = "round_sleep"
        /\ state.profiles["P1"] = << TokA, TokD >>
        /\ tasks[t].issued = << << "P1", << "e" >> >>, << "P2", << "e" >> >> >>


\* the item keys of display d: group by group in declaration order, token by
\* token in the group's stored order
ExpectedKeys(st, d) ==
    ConcatAll([ g \in DOMAIN st.names |->
                  LET p == st.names[g]
                  IN IF st.profile_settings[p].monitor_index = d
                     THEN [ j \in DOMAIN st.profiles[p] |->
                              << p, "|", key_for(st.profiles[p][j].network_id,
                                                 st.profiles[p][j].address) >> ]
                     ELSE << >> ])

\* C15: for every display the composed list has one item per token of every
\* group targeting the display, groups in declaration order and tokens in
\* stored order; at the end of a round each renderer holds that list, with the
\* texts the composer yields from the configuration and the caches as they are.
C15_ComposedItems ==
    \A d \in Displays :
        LET items == _build_monitor_items(state, last_results, logo_cache, d, TRUE)
        IN /\ [ k \in DOMAIN items |-> items[k].key ] = ExpectedKeys(state, d)
           /\ \A i \in DOMAIN monitor_tickers :
                  ( /\ monitor_tickers[i].monitor_index = d
                    /\ \E t \in DOMAIN tasks : tasks[t].pc = "round_sleep" )
                  => /\ monitor_tickers[i].order = ExpectedKeys(state, d)
                     /\ \A k \in DOMAIN items :
                            LET tk == monitor_tickers[i]
                            IN tk.widgets[tk.items[items[k].key]].text
                               = items[k].text

\* a round has ended with the tokens of two groups on display 0
C15_Witness ==
    /\ \E t \in DOMAIN tasks : tasks[t].pc = "round_sleep"
    /\ \E i \in DOMAIN monitor_tickers :
          /\ monitor_tickers[i].monitor_index = 0
          /\ monitor_tickers[i].order
             = << << "P1", "|", << "e", ":", "0", "x", "a" >> >>,
                  << "P1", "|", << "e", ":", "D" >> >>,
                  << "P2", "|", << "e", ":", "0", "x", "a" >> >> >>


---------------------------------------------------------------------------
(* Names: custom names as the file may hold them, short and long addresses *)

\* addresses of 3, 10 and 11 characters
NamedAddresses ==
    { << "0", "x", "a" >>,
      << "0", "x", "a", "b", "c", "a", "b", "c", "a", "b" >>,
      << "0", "x", "a", "b", "c", "a", "b", "c", "a", "b", "c" >> }

\* custom names: none, white space alone, a name, a name in white space
CustomNames == { << >>, << " " >>, << "N" >>, << " ", "N", " " >> }

\* one token on display 0, the group using custom names or not
InitNames ==
    \E a \in NamedAddresses, c \in CustomNames, use \in BOOLEAN :
        InitWorld(Config(<< [ Token(<< "e" >>, a) EXCEPT !.custom_name = c ] >>,
                         [ Settings(0, TRUE, 30, FALSE)
                             EXCEPT !.use_custom_names = use ],
                         << >>, Settings(None, TRUE, 30, FALSE)))

NextNames == StartTracking \/ RoundStep

SpecNames == InitNames /\ [][NextNames]_vars

\* the token of the first group, its key, and the name its widget shows on
\* display 0 at the end of a round (<< "?" >> at any other time)
TheToken == state.profiles["P1"][1]

TheKey == TheToken.network_id \o << ":" >> \o TheToken.address

Composed ==
    /\ monitor_tickers # << >>
    /\ \E t \in DOMAIN tasks : tasks[t].pc = "round_sleep"

ShownName ==
    IF Composed
    THEN LET tk == monitor_tickers[1]
         IN tk.widgets[tk.items[<< "P1", "|", TheKey >>]].text[1]
    ELSE << "?" >>

\* the address with its middle cut out when it has more than ten characters
Shortened(a) ==
    IF Len(a) > 10
    THEN << a[1], a[2], a[3], a[4], a[5], a[6], "...",
            a[Len(a) - 3], a[Len(a) - 2], a[Len(a) - 1], a[Len(a)] >>
    ELSE a

FallbackName ==
    IF TheKey \in DOMAIN state.token_names THEN state.token_names[TheKey]
    ELSE Shortened(TheToken.address)

\* C16 as stated: the name shown is the custom name when the group uses custom
\* names and the custom name is not empty, else the cached feed name when there
\* is one, else the shortened address.
C16_DisplayName ==
    Composed =>
        ShownName = IF state.profile_settings["P1"].use_custom_names
                       /\ TheToken.custom_name # << >>
                    THEN TheToken.custom_name
                    ELSE FallbackName

\* C16 amended: the custom name counts without the white space around it: it
\* is shown stripped, and a custom name of white space alone counts as empty.
C16_DisplayNameStripped ==
    Composed =>
        ShownName = IF state.profile_settings["P1"].use_custom_names
                       /\ \E k \in DOMAIN TheToken.custom_name :
                              TheToken.custom_name[k] # " "
                    THEN SelectSeq(TheToken.custom_name, LAMBDA ch : ch # " ")
                    ELSE FallbackName

\* a round has ended for a long address whose feed name is cached, the group
\* using custom names and the token's custom name being white space
C16_Witness ==
    /\ Composed
    /\ state.profile_settings["P1"].use_custom_names
    /\ TheToken.custom_name = << " " >>
    /\ Len(TheToken.address) > 10
    /\ ShownName = FeedName


---------------------------------------------------------------------------
(* Prices: what the renderer shows for the prices the feed may report *)

\* in 10^-5 dollars: 0, 0.00001, 0.05, 0.09999, 0.1, 0.999, 0.99996, 1.0,
\* 1.23456, 99.999, 99.99996, 100.00, 999.996, 1000, 1234.56789
PriceSamples ==
    { 0, 1, 5000, 9999, 10000, 99900, 99996, 100000, 123456, 9999900, 9999996,
      10000000, 99999600, 100000000, 123456789 }

InitPrice ==
    \E tok \in { TokA, TokB }, m \in Displays :
        InitWorld(Config(<< tok >>, Settings(m, TRUE, 30, FALSE),
                         << >>, Settings(None, TRUE, 30, FALSE)))

\* a 200 response with one record for the token, its price one of the
\* samples or null
BatchPriced(t) ==
    /\ Live(t) /\ tasks[t].pc = "http"
    /\ \E price \in PriceSamples \cup { None } :
          Resumed(t, OnBatchOk(Cur, tasks[t],
                               << FullRecord(tasks[t].by_net[tasks[t].ni].addrs[1],
                                             price) >>))

PricedStep ==
    \E t \in 1 .. MaxTasks :
        \/ TaskFirstStep(t)
        \/ WakeFromSleep(t)
        \/ BatchPriced(t)

NextPrice == StartTracking \/ PricedStep

SpecPrice == InitPrice /\ [][NextPrice]_vars

\* the price cached for the token, and the price text its widget shows at the
\* end of a round
CachedPrice == DictGet(last_results["P1"], TheKey, AbsentSample).price

ShownPrice ==
    IF Composed
    THEN LET tk == monitor_tickers[1]
         IN tk.widgets[tk.items[<< "P1", "|", TheKey >>]].text[2]
    ELSE << "?" >>

\* reading a price text back: where its point is, how many decimals follow,
\* and the number its digits spell when commas and point are left out
PointAt(s) ==
    IF \E i \in DOMAIN s : s[i] = "."
    THEN CHOOSE i \in DOMAIN s : s[i] = "."
    ELSE 0

DecimalsOf(s) == IF PointAt(s) = 0 THEN 0 ELSE Len(s) - PointAt(s)

WholePart(s) == IF PointAt(s) = 0 THEN s ELSE SubSeq(s, 1, PointAt(s) - 1)

DigitVal(c) == CHOOSE d \in 0 .. 9 : DigitChar(d) = c

RECURSIVE NumberOf(_)
NumberOf(s) ==
    IF s = << >> THEN 0
    ELSE LET front == SubSeq(s, 1, Len(s) - 1)
         IN IF s[Len(s)] \in { ",", "." } THEN NumberOf(front)
            ELSE 10 * NumberOf(front) + DigitVal(s[Len(s)])

\* s is p rounded to its decimals (at most five): off by half a last place
\* at most
NearTo(s, p) ==
    LET u    == Pow10(5 - DecimalsOf(s))
        diff == NumberOf(s) * u - p
    IN -u <= 2 * diff /\ 2 * diff <= u

\* a comma before every group of three digits but the first, and nowhere else
ThousandsGrouped(w) ==
    /\ w[1] # ","
    /\ \A i \in DOMAIN w : (w[i] = ",") <=> ((Len(w) - i) % 4 = 3)

\* C17: an absent price is shown as the placeholder; any other price starts
\* with "$" and goes on with the price in 2 decimals and thousands grouping
\* from 100 on, in 3 decimals from 1 to below 100, in 4 decimals from 0.1 to
\* below 1, and below 0.1 with the price to 8 decimals less its trailing zeros
\* and less a point left at the end.
C17_PriceStr ==
    Composed =>
        LET p == CachedPrice
            s == Tail(ShownPrice)
        IN IF p = None THEN ShownPrice = << "-" >>
           ELSE /\ ShownPrice[1] = "$"
                /\ p >= 10000000 =>
                     DecimalsOf(s) = 2 /\ ThousandsGrouped(WholePart(s)) /\ NearTo(s, p)
                /\ (100000 <= p /\ p < 10000000) =>
                     DecimalsOf(s) = 3 /\ NearTo(s, p)
                /\ (10000 <= p /\ p < 100000) =>
                     DecimalsOf(s) = 4 /\ NearTo(s, p)
                /\ p < 10000 =>
                     /\ DecimalsOf(s) <= 8
                     /\ s[Len(s)] # "."
                     /\ DecimalsOf(s) > 0 => s[Len(s)] # "0"
                     /\ NumberOf(s) * Pow10(8 - DecimalsOf(s)) = p * 1000

\* shown at the end of a round: 1234.56789 as "$1,234.57"
C17_Witness ==
    /\ Composed
    /\ CachedPrice = 123456789
    /\ ShownPrice = << "$", "1", ",", "2", "3", "4", ".", "5", "7" >>


---------------------------------------------------------------------------
(* The hotkey: three groups, the second one active *)

\* a third group, on no display and without tokens, after the two of cfg
WithThirdGroup(cfg) ==
    [ cfg EXCEPT !.names = << "P1", "P2", "P3" >>,
                 !.profiles = @ @@ ("P3" :> << >>),
                 !.profile_settings = @ @@ ("P3" :> Settings(None, TRUE, 30, FALSE)),
                 !.active_profile = "P2" ]

InitCycle ==
    \E t1 \in { << >>, << TokA >> }, t2 \in { << >>, << TokB >> },
       m1 \in {None} \cup Displays, m2 \in {None} \cup Displays :
        InitWorld(WithThirdGroup(Config(t1, Settings(m1, TRUE, 30, FALSE),
                                        t2, Settings(m2, TRUE, 30, FALSE))))

\* the hotkey is pressed: requestCycle (1055)
CycleActiveProfile == Becomes(cycle_active_profile(Cur))

NextCycle == StartTracking \/ CycleActiveProfile

SpecCycle == InitCycle /\ [][NextCycle]_vars

\* C18: when the active group changes, the new one is the group declared
\* right after the old one, the first group after the last; every group keeps
\* its display target, and the renderers are what they were.
C18_CycleActiveProfile ==
    [][ state'.active_profile # state.active_profile =>
          /\ \E i \in DOMAIN state.names :
                /\ state.names[i] = state.active_profile
                /\ state'.active_profile
                   = IF i = Len(state.names) THEN state.names[1]
                     ELSE state.names[i + 1]
          /\ \A p \in DOMAIN state.profile_settings :
                state'.profile_settings[p].monitor_index
                = state.profile_settings[p].monitor_index
          /\ monitor_tickers' = monitor_tickers ]_vars

\* tracking runs and the first group is active: the hotkey has gone from the
\* second group to the third and around to the first
C18_Witness ==
    /\ lifecycle = "started"
    /\ monitor_tickers # << >>
    /\ state.active_profile = "P1"


---------------------------------------------------------------------------
(* Tokens added while the engine runs *)

\* what the Add-token dialog may hold when accepted
TypedNets == { << "e" >>, << "s" >> }

TypedAddresses == { << >>, << "B" >>, << "0", "x", "A" >> }

\* the first group with a token on display 0; the second group without
\* tokens, on no display, 0 or 1; either of them selected
InitAdd ==
    \E m2 \in {None} \cup Displays, sel \in Range(GroupNames) :
        InitWorld([ Config(<< TokA >>, Settings(0, TRUE, 30, FALSE),
                           << >>, Settings(m2, TRUE, 30, FALSE))
                      EXCEPT !.active_profile = sel ])

AddToken ==
    /\ Len(state.profiles[state.active_profile]) < MaxTokens
    /\ \E net \in TypedNets, typed \in TypedAddresses, looked_up \in { << >>, FeedName } :
          Becomes(add_token(Cur, net, typed, << >>, looked_up))

NextAdd == StartTracking \/ AddToken \/ RoundStep

SpecAdd == InitAdd /\ [][NextAdd]_vars

\* C19: while tracking runs, every display that a group with tokens targets
\* has exactly one renderer.
C19_RendererPerAssignedDisplay ==
    lifecycle = "started" =>
        \A d \in Displays :
            (\E p \in Range(state.names) :
                 /\ state.profile_settings[p].monitor_index = d
                 /\ state.profiles[p] # << >>)
            => Cardinality({ i \in DOMAIN monitor_tickers :
                               monitor_tickers[i].monitor_index = d }) = 1


---------------------------------------------------------------------------
(* Restart *)

\* C20: when start_all has created a task (the task in refresh_task has not
\* run yet), the event loop holds no other refresh_loop task: the task
\* created before has ended, not only been asked to.
C20_PreviousTaskEnded ==
    \A t \in DOMAIN tasks :
        (t = refresh_task /\ tasks[t].pc = "new" /\ ~ tasks[t].cancel)
        => DOMAIN tasks = { t }


---------------------------------------------------------------------------
(* Rounds and restarts *)

\* the sample the cache lr holds for token t of group p
SampleIn(lr, p, t) == DictGet(lr[p], key_for(t.network_id, t.address), AbsentSample)

\* every widget of renderer tk shows, for its token, the sample of cache lr
ShowsCache(st, lr, tk) ==
    \A p \in Range(st.names) :
        st.profile_settings[p].monitor_index = tk.monitor_index =>
            \A j \in DOMAIN st.profiles[p] :
                LET t   == st.profiles[p][j]
                    key == << p, "|", key_for(t.network_id, t.address) >>
                    s   == SampleIn(lr, p, t)
                IN /\ key \in DOMAIN tk.items
                   /\ SubSeq(tk.widgets[tk.items[key]].text, 2, 3)
                      = << price_str(s.price), format_changes(s.m5, s.h24) >>

\* C21: the result cache is written only by a step of the task the controller
\* holds, which is not cancelled, resuming from a batch request: a task that
\* start_all has replaced merges nothing any more.  A renderer that is created
\* or handed an item list in a step shows the samples of the cache as that
\* step leaves it.
C21_LatestRoundWins ==
    [][ /\ last_results' # last_results =>
              /\ refresh_task \in DOMAIN tasks
              /\ ~ tasks[refresh_task].cancel
              /\ tasks[refresh_task].pc = "http"
              /\ refresh_task' = refresh_task
              /\ \A t \in (DOMAIN tasks) \ { refresh_task } :
                     t \in DOMAIN tasks' => tasks'[t] = tasks[t]
        /\ \A i \in DOMAIN monitor_tickers' :
              (i \notin DOMAIN monitor_tickers
                  \/ monitor_tickers'[i] # monitor_tickers[i])
              => ShowsCache(state', last_results', monitor_tickers'[i]) ]_vars

\* a replaced task is still suspended on its batch request while the task
\* that replaced it has merged a price and composed it
C21_Witness ==
    \E t \in DOMAIN tasks, u \in DOMAIN tasks :
        /\ tasks[t].cancel /\ tasks[t].pc = "http"
        /\ u = refresh_task /\ ~ tasks[u].cancel /\ tasks[u].pc = "round_sleep"
        /\ SampleIn(last_results, "P1", TokA).price # None
        /\ monitor_tickers # << >>


---------------------------------------------------------------------------
(* Groups added while a round is under way; no response is malformed *)

InitMutate ==
    \E t2 \in { << >>, << TokB >> }, m1 \in Displays, m2 \in {None} \cup Displays :
        InitWorld(Config(<< TokA >>, Settings(m1, TRUE, 30, FALSE),
                         t2, Settings(m2, TRUE, 30, FALSE)))

\* "New profile" with a name not in use
AddProfile == Becomes(add_profile(Cur, "P3"))

MutateStep ==
    \E t \in 1 .. MaxTasks :
        \/ TaskFirstStep(t)
        \/ WakeFromSleep(t)
        \/ WakeFromBackoff(t)
        \/ BatchFails(t)

NextMutate == StartTracking \/ AddProfile \/ MutateStep

SpecMutate == InitMutate /\ [][NextMutate]_vars

\* C22: with no response malformed, no round is aborted (no task is in the
\* back-off that follows an exception), and the requests of a round are for
\* groups that were assigned when the round began.
C22_RoundSnapshot ==
    \A t \in DOMAIN tasks :
        /\ tasks[t].pc # "backoff"
        /\ \A k \in DOMAIN tasks[t].issued :
              \E d \in DOMAIN tasks[t].m2p :
                  tasks[t].issued[k][1] \in Range(tasks[t].m2p[d])


\* C23: from pause_all on, as long as nothing starts the engine again, the
\* scheduler does nothing more: at whichever await its task was suspended, the
\* task is cancelled there; no task takes a step other than ending, so no round
\* begins (no resolver run, no status), no request is sent, no sample merged.
C23_PauseTakesEffectAtOnce ==
    [][ (lifecycle = "paused" /\ lifecycle' = "paused") =>
          /\ \A t \in DOMAIN tasks : tasks[t].cancel
          /\ \A t \in DOMAIN tasks' : t \in DOMAIN tasks /\ tasks'[t] = tasks[t]
          /\ assignment' = assignment
          /\ status' = status
          /\ last_results' = last_results
          /\ monitor_tickers' = monitor_tickers ]_vars

\* paused during the end-of-round sleep, and the cancelled task has ended
C23_Witness ==
    /\ lifecycle = "paused"
    /\ status = "Refreshed"
    /\ tasks = EmptyDict
    /\ refresh_task # None


---------------------------------------------------------------------------
(* Idle: nothing assigned at the start, tokens added while the engine polls *)

InitIdle ==
    \E m1 \in Displays, m2 \in {None} \cup Displays, sel \in Range(GroupNames) :
        InitWorld([ Config(<< >>, Settings(m1, TRUE, 30, FALSE),
                           << >>, Settings(m2, TRUE, 30, FALSE))
                      EXCEPT !.active_profile = sel ])

\* the rounds of this specification get no answer from the feed
IdleStep ==
    \E t \in 1 .. MaxTasks :
        \/ TaskFirstStep(t)
        \/ WakeFromSleep(t)
        \/ BatchFails(t)

NextIdle == StartTracking \/ AddToken \/ IdleStep

SpecIdle == InitIdle /\ [][NextIdle]_vars

\* no group has both a display and a token
NothingAssigned(st) ==
    \A p \in Range(st.names) :
        st.profile_settings[p].monitor_index = None \/ st.profiles[p] = << >>

\* C24: a task that sleeps in the idle poll has published the no-visible-groups
\* status and has no request out.  When the task begins or comes back from the
\* idle poll and nothing is assigned, it goes (back) into the idle poll, with
\* that status and no request; when something is assigned by then, it sends the
\* first batch request of a round in that very step.
C24_IdlePoll ==
    [][ \A t \in (DOMAIN tasks) \cap (DOMAIN tasks') :
          /\ (tasks'[t].pc = "idle_sleep" /\ ~ tasks'[t].cancel)
             => tasks'[t].issued = << >>
          /\ ( /\ tasks[t].pc \in { "new", "idle_sleep" }
               /\ ~ tasks[t].cancel /\ ~ tasks'[t].cancel
               /\ << tasks'[t], status' >> # << tasks[t], status >> )
             => IF NothingAssigned(state)
                THEN /\ tasks'[t].pc = "idle_sleep"
                     /\ status' = "No visible profiles."
                     /\ last_results' = last_results
                ELSE /\ tasks'[t].pc = "http"
                     /\ Len(tasks'[t].issued) = 1 ]_vars

\* a round's request is out although start_all found nothing to show: the
\* assignment appeared while the task was polling
C24_Witness ==
    /\ assignment.by = "refresh_loop"
    /\ monitor_tickers = << >>
    /\ status = "No visible profiles."
    /\ \E t \in DOMAIN tasks : tasks[t].pc = "http" /\ ~ tasks[t].cancel


---------------------------------------------------------------------------
(* Intervals: a group becomes assigned while a round is under way *)

\* the first group with a token on display 0, the second (selected) with a
\* display and no token yet
InitInterval ==
    \E m2 \in Displays, r1 \in RefreshChoices, r2 \in RefreshChoices :
        InitWorld([ Config(<< TokA >>, Settings(0, TRUE, r1, FALSE),
                           << >>, Settings(m2, TRUE, r2, FALSE))
                      EXCEPT !.active_profile = "P2" ])

NextInterval == StartTracking \/ AddToken \/ IdleStep

SpecInterval == InitInterval /\ [][NextInterval]_vars

\* the largest refresh interval among the groups that have a display and a
\* token in st, and 10 at least
IntervalDue(st) ==
    MaxOf({ 10 } \cup { st.profile_settings[p].refresh_sec :
                          p \in { q \in Range(st.names) :
                                    /\ st.profile_settings[q].monitor_index # None
                                    /\ st.profiles[q] # << >> } })

InRound(l) == l.pc \in { "http", "logos", "round_sleep" }

\* C25: a step that begins a round sets the round's interval to the largest
\* refresh interval of the groups assigned to any display at that moment, and
\* to 10 at least; the steps of the round after it leave the interval alone.
C25_RoundInterval ==
    [][ \A t \in (DOMAIN tasks) \cap (DOMAIN tasks') :
          (~ tasks[t].cancel /\ ~ tasks'[t].cancel /\ tasks'[t] # tasks[t]) =>
             /\ (~ InRound(tasks[t]) /\ InRound(tasks'[t]))
                => tasks'[t].R = IntervalDue(state)
             /\ (tasks[t].pc = "round_sleep" /\ InRound(tasks'[t]))
                => tasks'[t].R = IntervalDue(state)
             /\ (tasks[t].pc \in { "http", "logos" } /\ InRound(tasks'[t]))
                => tasks'[t].R = tasks[t].R ]_vars

\* a round sleeps the interval of the first group alone, 10 for the 5 it asks
\* for, although the second group, which asks for 30, has a token by now
C25_Witness ==
    \E t \in DOMAIN tasks :
        /\ tasks[t].pc = "round_sleep" /\ tasks[t].R = 10
        /\ state.profile_settings["P2"].refresh_sec = 30
        /\ state.profiles["P2"] # << >>


\* ---------------------------------------------------------------------
\* The end-of-round sleep, with the clock running
\* ---------------------------------------------------------------------

\* how far the clock is followed
MaxTime == 40

\* one group with a token on the first display, tracked at every interval
\* the settings dialog offers
InitClock ==
    \E r1 \in RefreshChoices :
        InitWorld(Config(<< TokA >>, Settings(0, TRUE, r1, FALSE),
                         << >>, Settings(None, TRUE, r1, FALSE)))

\* a second passes; the loop is not blocked, so that a sleep that is due
\* ends before the clock moves on
Tick ==
    /\ clock < MaxTime
    /\ \A t \in 1 .. MaxTasks :
          Live(t) /\ tasks[t].pc = "round_sleep"
             => clock < tasks[t].slept_at + tasks[t].dur
    /\ clock' = clock + 1
    /\ UNCHANGED << state, last_results, logo_cache, session,
                    monitor_tickers, refresh_task, tasks, status,
                    lifecycle, assignment, disk >>

\* 1295: asyncio.sleep(dur) returns dur seconds after it began
TimedWake(t) ==
    /\ Live(t) /\ tasks[t].pc = "round_sleep"
    /\ clock = tasks[t].slept_at + tasks[t].dur
    /\ Resumed(t, RunHead(Cur, tasks[t]))

ClockStep ==
    \E t \in 1 .. MaxTasks :
        TaskFirstStep(t) \/ TimedWake(t) \/ BatchFails(t)

NextClock == StartTracking \/ Tick \/ ClockStep

SpecClock == InitClock /\ [][NextClock]_vars

\* C26: a round that completes goes to sleep for max(1, R - elapsed)
\* seconds, which is at least one second; and when the sleep ends and the
\* next round starts, at least a second has gone by asleep and, if the round
\* took at most R - 1 seconds, exactly R seconds have gone by since the
\* round's start
C26_RoundCadence ==
    [][ \A t \in DOMAIN tasks :
          /\ ( tasks[t].pc # "round_sleep" /\ tasks'[t].pc = "round_sleep" )
                => LET elapsed == clock - tasks'[t].t0
                   IN /\ tasks'[t].slept_at = clock
                      /\ tasks'[t].dur >= 1
                      /\ tasks'[t].dur = IF tasks'[t].R - elapsed > 1
                                         THEN tasks'[t].R - elapsed ELSE 1
          /\ ( Live(t) /\ tasks[t].pc = "round_sleep"
                       /\ tasks'[t].pc = "http" )
                => LET elapsed == tasks[t].slept_at - tasks[t].t0
                   IN /\ tasks'[t].t0 = clock
                      /\ clock - tasks[t].slept_at >= 1
                      /\ elapsed <= tasks[t].R - 1
                            => clock - tasks[t].t0 = tasks[t].R ]_vars

\* a second round under way that started R seconds after the first, which
\* started at 0 and took a while
C26_Witness ==
    \E t \in 1 .. MaxTasks :
        /\ Live(t) /\ tasks[t].pc = "http"
        /\ tasks[t].t0 = tasks[t].R
        /\ clock > tasks[t].t0


\* ---------------------------------------------------------------------
\* Malformed fields of a 200 response
\* ---------------------------------------------------------------------

\* C27: a 200 response never aborts the round, whatever its records hold:
\* the task that awaited it goes on with the round (the next batch, the
\* merge, the logos or the renderers) and never to the 2-second pause of
\* the round boundary, and the samples the group has collected so far are
\* not lost to it
C27_MalformedFieldTolerated ==
    [][ \A t \in DOMAIN tasks :
          ( ~ tasks[t].cancel /\ tasks[t].pc = "http" )
             => /\ tasks'[t].pc # "backoff"
                /\ tasks'[t].prev = NoPrev
                      \/ \A n \in DOMAIN tasks'[t].prev.outcomes :
                            \A k \in DOMAIN tasks'[t].prev.outcomes[n].samples :
                               k \in DOMAIN last_results'[tasks'[t].prev.pname] ]_vars


\* ---------------------------------------------------------------------
\* Absent values
\* ---------------------------------------------------------------------

\* a numeric member of a response as the body holds it: missing or null
\* (the empty text), not a number, zero, and a number
RawNumbers == { << >>, << "x" >>, << "0" >>, << "2" >> }

\* 1251-1253, 1261-1264: float(raw) if raw is not None, None when float
\* raises; `unit` is what one stands for in the model's integers
to_float(raw, unit) ==
    IF raw # << >> /\ \A i \in DOMAIN raw : \E d \in 0 .. 9 : raw[i] = DigitChar(d)
    THEN NumberOf(raw) * unit
    ELSE None

\* 1248-1264: what the loop reads from a record with these three members
decode_record(addr, price, m5, h24) ==
    [ SparseRecord(addr) EXCEPT !.price_usd = to_float(price, PriceScale),
                                !.m5 = to_float(m5, 1),
                                !.h24 = to_float(h24, 1) ]

InitAbsent ==
    \E tok \in { TokA, TokB } :
        InitWorld(Config(<< tok >>, Settings(0, TRUE, 30, FALSE),
                         << >>, Settings(None, TRUE, 30, FALSE)))

\* a 200 response with one record for the token, each number as it may come
BatchRaw(t) ==
    /\ Live(t) /\ tasks[t].pc = "http"
    /\ \E price \in RawNumbers, m5 \in RawNumbers, h24 \in RawNumbers :
          Resumed(t, OnBatchOk(Cur, tasks[t],
                               << decode_record(tasks[t].by_net[tasks[t].ni].addrs[1],
                                                price, m5, h24) >>))

AbsentStep ==
    \E t \in 1 .. MaxTasks :
        \/ TaskFirstStep(t)
        \/ WakeFromSleep(t)
        \/ BatchFails(t)
        \/ BatchRaw(t)

NextAbsent == StartTracking \/ AbsentStep

SpecAbsent == InitAbsent /\ [][NextAbsent]_vars

\* the two change texts of a changes text: what stands before " last 5m / "
\* and what stands between it and " last 24h"
ChangeTexts(cs) ==
    LET i == CHOOSE j \in DOMAIN cs : cs[j] = " last 5m / "
    IN [ m5 |-> SubSeq(cs, 1, i - 1), h24 |-> SubSeq(cs, i + 1, Len(cs) - 1) ]

\* the widget of renderer tk shows sample s: a placeholder exactly for the
\* fields s does not have
ShowsAbsence(text, s) ==
    /\ (text[2] = Placeholder) <=> (s.price = None)
    /\ (ChangeTexts(text[3]).m5 = Placeholder) <=> (s.m5 = None)
    /\ (ChangeTexts(text[3]).h24 = Placeholder) <=> (s.h24 = None)
    /\ s.price = 0 => text[2] = << "$", "0" >>
    /\ s.m5 = 0 => ChangeTexts(text[3]).m5 = << "+", "0", "%" >>
    /\ s.h24 = 0 => ChangeTexts(text[3]).h24 = << "+", "0", "%" >>

\* C28: an absent value is never shown as zero, nor stored as zero.  A
\* renderer that is created or handed an item list shows, for every token,
\* the placeholder for exactly the fields that the cached sample does not
\* have (all three for a token without a sample), and the text of zero for
\* a field that is zero.  A response whose number is missing, null or not a
\* number leaves that field of the cached sample absent, and one whose number
\* is zero leaves it zero.
C28_AbsentIsNotZero ==
    [][ /\ \A d \in DOMAIN monitor_tickers' :
              ( d \notin DOMAIN monitor_tickers
                   \/ monitor_tickers'[d] # monitor_tickers[d] )
                 => \A p \in Range(state'.names) :
                       state'.profile_settings[p].monitor_index
                          = monitor_tickers'[d].monitor_index =>
                          \A j \in DOMAIN state'.profiles[p] :
                             LET t   == state'.profiles[p][j]
                                 key == << p, "|", key_for(t.network_id, t.address) >>
                                 tk  == monitor_tickers'[d]
                             IN ShowsAbsence(tk.widgets[tk.items[key]].text,
                                             SampleIn(last_results', p, t))
        /\ \A t \in DOMAIN tasks :
              ( ~ tasks[t].cancel /\ tasks[t].pc = "http" ) =>
                 \A price \in RawNumbers, m5 \in RawNumbers, h24 \in RawNumbers :
                    LET l   == tasks[t]
                        net == l.by_net[l.ni].net
                        a   == l.by_net[l.ni].addrs[1]
                        r   == ProcessPayload(Cur, l, << decode_record(a, price, m5, h24) >>)
                        s   == r.res[key_for(net, normalize_address(net, a))]
                        Kept(raw, v, unit) ==
                            /\ raw \in { << >>, << "x" >> } => v = None
                            /\ raw = << "0" >> => v = 0
                            /\ raw = << "2" >> => v = 2 * unit
                    IN /\ Kept(price, s.price, PriceScale)
                       /\ Kept(m5, s.m5, 1)
                       /\ Kept(h24, s.h24, 1) ]_vars

\* a renderer shows the token with a placeholder for its price and the text
\* of zero for its 5-minute change, as the cached sample has them
C28_Witness ==
    \E d \in DOMAIN monitor_tickers :
        LET tk == monitor_tickers[d]
            t  == state.profiles["P1"][1]
            s  == SampleIn(last_results, "P1", t)
            w  == tk.widgets[tk.items[<< "P1", "|", key_for(t.network_id, t.address) >>]]
        IN /\ s.price = None /\ s.m5 = 0 /\ s.h24 = None
           /\ w.text[2] = Placeholder
           /\ ChangeTexts(w.text[3]) = [ m5 |-> << "+", "0", "%" >>, h24 |-> Placeholder ]


\* ---------------------------------------------------------------------
\* One token in two groups on one display
\* ---------------------------------------------------------------------

TwinName == << "m", "y" >>

\* both groups on the first display, each with the same token, the second
\* group's with a custom name; the groups differ or not in whether they show
\* logos and use custom names
InitTwin ==
    \E l1 \in BOOLEAN, l2 \in BOOLEAN, u2 \in BOOLEAN :
        InitWorld(Config(<< TokA >>, Settings(0, TRUE, 30, l1),
                         << [ TokA EXCEPT !.custom_name = TwinName ] >>,
                         [ Settings(0, TRUE, 30, l2)
                             EXCEPT !.use_custom_names = u2 ]))

TwinStep ==
    \E t \in 1 .. MaxTasks :
        \/ TaskFirstStep(t)
        \/ WakeFromSleep(t)
        \/ WakeFromBackoff(t)
        \/ BatchFails(t)
        \/ BatchSucceeds(t)
        \/ LogosReturn(t)

NextTwin == StartTracking \/ TwinStep

SpecTwin == InitTwin /\ [][NextTwin]_vars

TwinKey == key_for(TokA.network_id, TokA.address)

\* the widget renderer tk holds for the token as group p has it
TwinWidget(tk, p) == tk.widgets[tk.items[<< p, "|", TwinKey >>]]

\* the name group p shows for the token
TwinShown(st, p) ==
    IF st.profile_settings[p].use_custom_names /\ p = "P2" THEN TwinName
    ELSE IF DictGet(st.token_names, TwinKey, << >>) # << >>
         THEN st.token_names[TwinKey]
         ELSE short_addr(TokA.address)

\* C29: a renderer that is created or handed an item list holds two widgets
\* for the token that both groups of its display have, under two identities,
\* the first group's before the second's; each shows the sample of its own
\* group's cache, the name by its own group's choice of custom names, and
\* the logo by its own group's setting
C29_TwinItems ==
    [][ \A i \in DOMAIN monitor_tickers' :
          ( i \notin DOMAIN monitor_tickers
               \/ monitor_tickers'[i] # monitor_tickers[i] )
             => LET tk == monitor_tickers'[i]
                IN /\ \A p \in { "P1", "P2" } : << p, "|", TwinKey >> \in DOMAIN tk.items
                   /\ tk.items[<< "P1", "|", TwinKey >>]
                         # tk.items[<< "P2", "|", TwinKey >>]
                   /\ Len(tk.order) = 2
                   /\ \A p \in { "P1", "P2" } :
                         LET s == DictGet(last_results'[p], TwinKey, AbsentSample)
                             w == TwinWidget(tk, p)
                         IN /\ w.text = << TwinShown(state', p), price_str(s.price),
                                           format_changes(s.m5, s.h24) >>
                            /\ w.show_logo = state'.profile_settings[p].show_logo ]_vars

\* the two widgets of the token differ in price, in name and in logo
C29_Witness ==
    \E i \in DOMAIN monitor_tickers :
        LET tk == monitor_tickers[i]
            a  == TwinWidget(tk, "P1")
            b  == TwinWidget(tk, "P2")
        IN /\ Len(tk.order) = 2
           /\ a.text[2] # Placeholder /\ b.text[2] = Placeholder
           /\ a.text[1] # b.text[1]
           /\ a.show_logo # b.show_logo


\* ---------------------------------------------------------------------
\* Logo requests in flight
\* ---------------------------------------------------------------------

LogoTokens ==
    << Token(<< "e" >>, << "1" >>), Token(<< "e" >>, << "2" >>),
       Token(<< "e" >>, << "3" >>), Token(<< "e" >>, << "4" >>),
       Token(<< "e" >>, << "5" >>) >>

\* five tokens on the first display and none or one on the second, the icon
\* URL of each of them known from state.json and no logo on disk
InitLogos ==
    \E m2 \in { None, 1 } :
        InitWorld([ Config(LogoTokens, Settings(0, TRUE, 30, TRUE),
                           << TokB >>, Settings(m2, TRUE, 30, TRUE))
                      EXCEPT !.token_logos =
                         [ k \in { key_for(t.network_id, t.address) :
                                     t \in Range(LogoTokens) \cup { TokB } }
                             |-> FeedIcon ] ])

\* 1318-1320: a child of the gather passes the semaphore and sends its request
LogoBegins(t) ==
    /\ Live(t) /\ tasks[t].pc = "logos"
    /\ sem_free(tasks[t].flying)
    /\ \E k \in tasks[t].to_fetch \ (tasks[t].flying \cup tasks[t].landed) :
          Becomes([ Cur EXCEPT !.tasks[t].flying = @ \cup { k } ])

\* 1321-1329: the request of a child is over, whatever came of it
LogoEnds(t) ==
    /\ Live(t) /\ tasks[t].pc = "logos"
    /\ \E k \in tasks[t].flying :
          Becomes([ Cur EXCEPT !.tasks[t].flying = @ \ { k },
                               !.tasks[t].landed = @ \cup { k } ])

\* 1330-1333: every child is done and the gather returns
GatherReturns(t) ==
    /\ Live(t) /\ tasks[t].pc = "logos"
    /\ tasks[t].landed = tasks[t].to_fetch
    /\ \E got \in SUBSET tasks[t].to_fetch :
          Resumed(t, OnLogos(Cur, [ tasks[t] EXCEPT !.flying = {}, !.landed = {} ],
                             got))

\* cancel() schedules the cancelled task, and the children of its gather,
\* before create_task schedules the new one, and the loop runs what is ready
\* in that order and before it looks for responses: no task takes a step
\* while a cancelled one has not been run
Unwound == \A t \in DOMAIN tasks : ~ tasks[t].cancel

LogoStep ==
    \/ \E t \in DOMAIN tasks : TaskCancelled(t)
    \/ /\ Unwound
       /\ \E t \in 1 .. MaxTasks :
             \/ TaskFirstStep(t)
             \/ WakeFromSleep(t)
             \/ BatchFails(t)
             \/ LogoBegins(t)
             \/ LogoEnds(t)
             \/ GatherReturns(t)

NextLogos == StartAll \/ PauseAll \/ LogoStep

SpecLogos == InitLogos /\ [][NextLogos]_vars

\* the logo requests in flight, of every task the event loop holds
InFlight == UNION { { << t, k >> : k \in tasks[t].flying } : t \in DOMAIN tasks }

\* C30: at most 4 logo requests are in flight at any moment, counting those
\* of every task, cancelled or not
C30_LogoGate == Cardinality(InFlight) <= 4

\* start_all has cancelled a task that has four logo requests in flight and
\* a fifth waiting at the gate, and has created the next task
C30_Witness ==
    \E t \in DOMAIN tasks, u \in DOMAIN tasks :
        /\ tasks[t].cancel /\ tasks[t].pc = "logos"
        /\ Cardinality(tasks[t].flying) = 4
        /\ u = refresh_task /\ ~ tasks[u].cancel /\ tasks[u].pc = "new"


\* ---------------------------------------------------------------------
\* Which tokens have their logo fetched
\* ---------------------------------------------------------------------

\* the first group shows logos, the second shows them or not and is on the
\* first display or the second; state.json holds no icon URL, or the URLs a
\* session that showed the logos of both groups has saved
InitScope ==
    \E m2 \in Displays, l2 \in BOOLEAN, saved \in BOOLEAN :
        InitWorld([ Config(<< TokA >>, Settings(0, TRUE, 30, TRUE),
                           << TokB >>, Settings(m2, TRUE, 30, l2))
                      EXCEPT !.token_logos =
                         IF saved
                         THEN [ k \in { key_for(t.network_id, t.address) :
                                          t \in { TokA, TokB } } |-> FeedIcon ]
                         ELSE EmptyDict ])

ScopeStep ==
    \E t \in 1 .. MaxTasks :
        \/ TaskFirstStep(t)
        \/ WakeFromSleep(t)
        \/ WakeFromBackoff(t)
        \/ BatchFails(t)
        \/ BatchSucceeds(t)
        \/ LogosReturn(t)

NextScope == StartTracking \/ ScopeStep

SpecScope == InitScope /\ [][NextScope]_vars

\* the groups that hold a token with key k
GroupsOf(st, k) ==
    { p \in Range(st.names) :
        \E j \in DOMAIN st.profiles[p] :
            key_for(st.profiles[p][j].network_id, st.profiles[p][j].address) = k }

\* C31: a logo is fetched for a key only when the logo cache does not hold
\* it and a group that holds the token shows logos; a token that only groups
\* without logos hold causes no fetch
C31_LogoScope ==
    \A t \in DOMAIN tasks :
        ( ~ tasks[t].cancel /\ tasks[t].pc = "logos" ) =>
            \A k \in tasks[t].to_fetch :
                /\ k \notin logo_cache
                /\ \E p \in GroupsOf(state, k) : ps_for(state, p).show_logo


\* ---------------------------------------------------------------------
\* Names and icon URLs a response reveals
\* ---------------------------------------------------------------------

\* the key of record rec of a response to task l's batch
RecordKey(l, rec) ==
    key_for(l.by_net[l.ni].net, normalize_address(l.by_net[l.ni].net, rec.address))

\* the state after task t, awaiting a batch, has processed `payload`
StateAfter(t, payload) == OnBatchOk(Cur, tasks[t], payload).w.state

AwaitingBatch == { t \in DOMAIN tasks : ~ tasks[t].cancel /\ tasks[t].pc = "http" }

Centred(tk) == tk.track_x = (tk.container_w - tk.track_w) \div 2

\* C33: an item-list update that leaves the renderer static leaves its offset
\* at 0 and its track centred in the container
C33_StaticIsCentred ==
    [][ ( EndOfRound /\ ~ TheTicker'._marquee )
           => ( TheTicker'._offset = 0 /\ Centred(TheTicker') ) ]_vars


\* C34: an item-list update on a renderer that scrolls before and after it
\* leaves the offset as it was; between two states in which the renderer
\* scrolls the offset changes only by a tick of the timer, and by one
C34_RefreshKeepsOffset ==
    [][ ( monitor_tickers # << >> /\ monitor_tickers' # << >>
          /\ TheTicker._marquee /\ TheTicker'._marquee )
           => /\ EndOfRound => TheTicker'._offset = TheTicker._offset
              /\ TheTicker'._offset # TheTicker._offset
                    => ( ScrollStep /\ TheTicker'._offset = TheTicker._offset + 1 ) ]_vars

\* a renderer that scrolled with eleven items has been handed one wide item
\* instead: it still scrolls and its offset is the one the timer had reached
C34_Witness ==
    /\ monitor_tickers # << >>
    /\ TheTicker._marquee /\ TheTicker._offset = MaxOffset
    /\ Len(TheTicker.order) = 1
    /\ TheTicker.hbox[1] > MarqueeItemLimit


\* C35: a renderer that does not scroll has offset 0, in every state
C35_StaticHasNoOffset ==
    \A i \in DOMAIN monitor_tickers :
        ~ monitor_tickers[i]._marquee => monitor_tickers[i]._offset = 0

\* a renderer that has stopped scrolling: its offset is 0 again and its track
\* is still where the last tick put it
C35_Witness ==
    /\ monitor_tickers # << >>
    /\ ~ TheTicker._marquee /\ TheTicker._offset = 0
    /\ TheTicker.track_x = 0 - MaxOffset


\* ---------------------------------------------------------------------
\* Identities of the items of a list
\* ---------------------------------------------------------------------

\* no element of sequence s occurs twice
Injective(s) == \A i \in DOMAIN s, j \in DOMAIN s : i # j => s[i] # s[j]

\* C36: the identities of the list composed for any display are pairwise
\* distinct, and every renderer holds as many widgets as its order list has
\* positions, each under an identity of its own
C36_DistinctIdentities ==
    /\ \A d \in Displays :
          LET items == _build_monitor_items(state, last_results, logo_cache, d, TRUE)
          IN Injective([ i \in DOMAIN items |-> items[i].key ])
    /\ \A i \in DOMAIN monitor_tickers :
          LET tk == monitor_tickers[i]
          IN /\ Injective(tk.order)
             /\ Cardinality(DOMAIN tk.widgets) = Len(tk.order)


\* ---------------------------------------------------------------------
\* What the result cache keeps
\* ---------------------------------------------------------------------

\* a step of task t from its batch request that merged a group's results,
\* of which a successful batch supplied key k of group p
Supplied(t, p, k) ==
    /\ ~ tasks[t].cancel /\ tasks[t].pc = "http"
    /\ t \in DOMAIN tasks'
    /\ tasks'[t].prev.pname = p
    /\ \E n \in DOMAIN tasks'[t].prev.outcomes :
          /\ tasks'[t].prev.outcomes[n].kind = "ok"
          /\ k \in DOMAIN tasks'[t].prev.outcomes[n].samples

\* C37: no step removes a key from a group's result cache; a step adds a key
\* or changes its sample only when a successful batch response of that
\* group's fetch supplies the key; and a start_all after a stop leaves the
\* cache as it is and composes every renderer's items from it
C37_CacheOnlyGrows ==
    [][ /\ \A p \in DOMAIN last_results :
              /\ p \in DOMAIN last_results'
              /\ DOMAIN last_results[p] \subseteq DOMAIN last_results'[p]
              /\ \A k \in DOMAIN last_results'[p] :
                    ( k \notin DOMAIN last_results[p]
                        \/ last_results'[p][k] # last_results[p][k] )
                       => \E t \in DOMAIN tasks : Supplied(t, p, k)
        /\ ( lifecycle = "stopped" /\ lifecycle' = "started" )
              => /\ last_results' = last_results
                 /\ \A i \in DOMAIN monitor_tickers' :
                       ShowsCache(state', last_results, monitor_tickers'[i]) ]_vars

\* tracking has been stopped with a price in the cache and started again:
\* the new task has not run yet and the renderer shows that price
C37_Witness ==
    /\ lifecycle = "started"
    /\ refresh_task \in DOMAIN tasks /\ tasks[refresh_task].pc = "new"
    /\ DOMAIN tasks = { refresh_task }
    /\ \E i \in DOMAIN monitor_tickers :
          LET tk == monitor_tickers[i]
          IN \E w \in DOMAIN tk.widgets :
                tk.widgets[w].text[2] = price_str(SampleIn(last_results, "P1", TokA).price)
                /\ tk.widgets[w].text[2] # Placeholder


\* ---------------------------------------------------------------------
\* Aborted rounds
\* ---------------------------------------------------------------------

\* task t takes a step of its coroutine
Steps(t) ==
    /\ ~ tasks[t].cancel
    /\ t \in DOMAIN tasks' /\ ~ tasks'[t].cancel
    /\ tasks'[t] # tasks[t]

\* C38: the step that aborts a round changes no renderer and leaves the
\* result cache as the groups fetched before have merged it; no step of the
\* fetch phase changes a renderer; and a round that has begun to compose is
\* not aborted: an aborted round has changed no renderer
C38_AbortedRoundComposesNothing ==
    [][ \A t \in DOMAIN tasks :
          Steps(t) =>
            /\ tasks'[t].pc = "backoff"
                  => /\ monitor_tickers' = monitor_tickers
                     /\ last_results' = last_results
                     /\ tasks[t].pc = "http"
            /\ tasks'[t].pc = "http" => monitor_tickers' = monitor_tickers ]_vars

\* the round has merged the first group's price and has been aborted in the
\* second group's fetch: the cache holds the price, the renderer does not
\* show it
C38_Witness ==
    \E t \in DOMAIN tasks :
        /\ ~ tasks[t].cancel /\ tasks[t].pc = "backoff"
        /\ tasks[t].prev.pname = "P2"
        /\ SampleIn(last_results, "P1", TokA).price # None
        /\ \E i \in DOMAIN monitor_tickers :
              LET tk == monitor_tickers[i]
                  k  == << "P1", "|", key_for(TokA.network_id, TokA.address) >>
              IN k \in DOMAIN tk.items
                 /\ tk.widgets[tk.items[k]].text[2] = Placeholder


\* ---------------------------------------------------------------------
\* The renderers start_all leaves
\* ---------------------------------------------------------------------

\* the displays that a group with a target and a token is assigned to
AssignedDisplays(st) ==
    { ps_for(st, p).monitor_index : p \in { q \in Range(st.names) : IsAssigned(st, q) } }

\* C39: when start_all has returned (it has put a new task in refresh_task),
\* the displays that have a renderer are the displays that a group is
\* assigned to in the state as it then is, one renderer each, and every
\* renderer is a new one, built from the result cache
C39_RenderersAfterStart ==
    [][ refresh_task' # refresh_task =>
          /\ TickerKeys(monitor_tickers') = AssignedDisplays(state')
          /\ Cardinality(TickerKeys(monitor_tickers')) = Len(monitor_tickers')
          /\ \A i \in DOMAIN monitor_tickers' :
                /\ monitor_tickers'[i]._offset = 0
                /\ ShowsCache(state', last_results', monitor_tickers'[i]) ]_vars

\* the second group, fetched while it had a display, has lost it and tracking
\* has started anew: the task the restart cancelled is still there, and only
\* the first display has a renderer
C39_Witness ==
    /\ lifecycle = "started"
    /\ ps_for(state, "P2").monitor_index = None
    /\ last_results["P2"] # EmptyDict
    /\ refresh_task \in DOMAIN tasks /\ tasks[refresh_task].pc = "new"
    /\ \E t \in DOMAIN tasks : tasks[t].cancel
    /\ TickerKeys(monitor_tickers) = { 0 }

=============================================================================
